---- MODULE Spec2Model ----
(***************************************************************************)
(* Model of the gfc project orchestrator: ProjectUsecase::create_project   *)
(* and ProjectUsecase::list_projects (src/src/usecases/project.rs), the    *)
(* status derivation (src/src/models/project.rs) and the collaborators     *)
(* they call through the GitClient and ComposeClient traits.               *)
(*                                                                         *)
(* Strings are sequences of one-character strings, so that trim, len,      *)
(* contains and the path operations are computed as the code computes      *)
(* them.  A path is the sequence of its components as Path::components     *)
(* yields them for an absolute path: empty components and "." are gone,    *)
(* ".." is kept.                                                           *)
(***************************************************************************)
EXTENDS Integers, Sequences, FiniteSets, TLC

VARIABLES
    containers,   \* SpecStatus: the container list handed to status derivation
    status,       \* SpecStatus: the derived ProjectStatus, NoStatus before the call
    dirs,         \* the workspace filesystem: the directories (resolved paths)
    files,        \* the workspace filesystem: regular files, path -> content
    log,          \* history: the opens and writes of manifests, in order
    call,         \* create_project calls: position, argument, locations, result
    unit,         \* the detached unit of each create_project call
    list,         \* the list_projects call: position, manifests, projects, result
    client        \* SpecOps: one direct call of a function or collaborator

vars == <<containers, status, dirs, files, log, call, unit, list, client>>

----------------------------------------------------------------------------
(* Bounds of the model *)

MaxContainers == 3
MaxCalls == 2
MaxLists == 1
MaxPsLines == 2
MaxFaultAt == 2

----------------------------------------------------------------------------
(* Strings *)

\* str::trim: leading and trailing white space removed
\* the white space str::trim removes, as far as the inputs hold any
WhiteSpace == {" ", "\n", "\t"}

RECURSIVE TrimStart(_)
TrimStart(s) ==
    IF s # <<>> /\ Head(s) \in WhiteSpace THEN TrimStart(Tail(s)) ELSE s

RECURSIVE TrimEnd(_)
TrimEnd(s) ==
    IF s # <<>> /\ s[Len(s)] \in WhiteSpace
    THEN TrimEnd(SubSeq(s, 1, Len(s) - 1)) ELSE s

Trim(s) == TrimEnd(TrimStart(s))

\* str::contains(chars): some character of s is in cs
ContainsAny(s, cs) == \E i \in DOMAIN s : s[i] \in cs

\* s ends with the characters of suffix
EndsWith(s, suffix) ==
    /\ Len(s) >= Len(suffix)
    /\ SubSeq(s, Len(s) - Len(suffix) + 1, Len(s)) = suffix

----------------------------------------------------------------------------
(* models/docker_compose.rs, models/project.rs: the status model *)

ContainerState ==
    {"Created", "Dead", "Exited", "Paused", "Removing", "Restarting", "Running"}

Unknown == [kind |-> "Unknown"]
Stopped == [kind |-> "Stopped"]
Running(active, total) ==
    [kind |-> "Running", active_containers |-> active, total_containers |-> total]
PartiallyRunning(active, total) ==
    [kind |-> "PartiallyRunning", active_containers |-> active,
     total_containers |-> total]
CreationInProgress == [kind |-> "CreationInProgress"]
DeploymentFailed(reason) == [kind |-> "DeploymentFailed", reason |-> reason]

NoStatus == [kind |-> "none"]

\* a plausible slip: the all-running arm also takes the partial case
from_container_counts_AlwaysRunning(active, total) ==
    IF active = 0 /\ total = 0 THEN Unknown
    ELSE IF active = 0 THEN Stopped
    ELSE Running(active, total)

\* ProjectStatus::from_container_counts: the match on (active, total)
from_container_counts(active, total) ==
    IF active = 0 /\ total = 0 THEN Unknown
    ELSE IF active = 0 THEN Stopped
    ELSE IF active = total THEN Running(active, total)
    ELSE PartiallyRunning(active, total)

Container(name, state) == [name |-> name, state |-> state]

\* determine_project_status_from: total = len, running = count of state == Running
determine_project_status_from(cs) ==
    LET total == Len(cs)
        running == Len(SelectSeq(cs, LAMBDA c : c.state = "Running"))
    IN  from_container_counts(running, total)

----------------------------------------------------------------------------
(* models/project.rs: ProjectName *)

MaxNameLen == 100

InvalidNameChars == {"/", "\\", ":", "*", "?", "\"", "<", ">", "|"}

Ok(v) == [ok |-> TRUE, value |-> v]
Err(e) == [ok |-> FALSE, error |-> e]

\* char::len_utf8: the bytes of a character; "U+00E9" stands for a character
\* of two bytes
len_utf8(ch) == IF ch = "U+00E9" THEN 2 ELSE 1

\* String::len: the length in bytes
RECURSIVE String_len(_)
String_len(s) == IF s = <<>> THEN 0 ELSE len_utf8(Head(s)) + String_len(Tail(s))

\* ProjectName::new
ProjectName_new(name) ==
    IF Trim(name) = <<>> THEN Err("Project name cannot be empty")
    ELSE IF String_len(name) > MaxNameLen
         THEN Err("Project name cannot exceed 100 characters")
    ELSE IF ContainsAny(name, InvalidNameChars)
         THEN Err("Project name contains invalid characters")
    ELSE Ok(name)

----------------------------------------------------------------------------
(* std::path: paths as component sequences *)

Dot == <<".">>
DotDot == <<".", ".">>

None == [some |-> FALSE]
Some(v) == [some |-> TRUE, value |-> v]

\* Path::components of the part of a path that follows an absolute base: the
\* string is cut at "/", empty components and "." are skipped, ".." is kept
RECURSIVE ComponentsFrom(_, _, _)
ComponentsFrom(s, i, cur) ==
    LET flush == IF cur = <<>> \/ cur = Dot THEN <<>> ELSE <<cur>>
    IN  IF i > Len(s) THEN flush
        ELSE IF s[i] = "/" THEN flush \o ComponentsFrom(s, i + 1, <<>>)
        ELSE ComponentsFrom(s, i + 1, Append(cur, s[i]))

Components(s) == ComponentsFrom(s, 1, <<>>)

\* Path::join: an absolute argument replaces the base
Path_join(base, s) ==
    IF s # <<>> /\ s[1] = "/" THEN Components(s) ELSE base \o Components(s)

\* Path::file_name: the last component when it is a normal one
Path_file_name(p) ==
    IF p = <<>> \/ p[Len(p)] = DotDot THEN None ELSE Some(p[Len(p)])

\* Path::parent
Path_parent(p) == IF p = <<>> THEN None ELSE Some(SubSeq(p, 1, Len(p) - 1))

\* the file or directory a path names: the operating system follows ".."
RECURSIVE ResolveFrom(_, _, _)
ResolveFrom(p, i, acc) ==
    IF i > Len(p) THEN acc
    ELSE IF p[i] = DotDot
         THEN ResolveFrom(p, i + 1,
                          IF acc = <<>> THEN acc ELSE SubSeq(acc, 1, Len(acc) - 1))
    ELSE ResolveFrom(p, i + 1, Append(acc, p[i]))

Resolve(p) == ResolveFrom(p, 1, <<>>)

\* Path::is_dir, Path::is_file, Path::exists against the workspace filesystem
IsDir(ds, p) == Resolve(p) \in ds
IsFile(fs, p) == Resolve(p) \in DOMAIN fs
Exists(ds, fs, p) == IsDir(ds, p) \/ IsFile(fs, p)

----------------------------------------------------------------------------
(* config: the two workspace roots, "/workspace/projects" and                *)
(* "/workspace/repos" in the tests of usecases/project.rs, written /w/p and  *)
(* /w/r                                                                      *)

manifests_root == << <<"w">>, <<"p">> >>
repositories_root == << <<"w">>, <<"r">> >>

project_yaml == <<"p", "r", "o", "j", "e", "c", "t", ".", "y", "a", "m", "l">>

----------------------------------------------------------------------------
(* models/project.rs, models/git.rs: ProjectFile and its YAML document *)

GitSource(url, branch, path) == [url |-> url, branch |-> branch, path |-> path]
ProjectFile(name, source) == [name |-> name, source |-> source]

\* The text of a file is the sequence of its characters.  A YAML mapping read
\* from a text is a sequence of <<key, value>> entries; a value is a scalar
\* [scalar |-> string] or a nested mapping [mapping |-> entries].
Scalar(s) == [scalar |-> s]
Mapping(es) == [mapping |-> es]
IsMapping(v) == "mapping" \in DOMAIN v
IsScalar(v) == "scalar" \in DOMAIN v

NL == "\n"
key_name == <<"n", "a", "m", "e">>
key_source == <<"s", "o", "u", "r", "c", "e">>
key_url == <<"u", "r", "l">>
key_branch == <<"b", "r", "a", "n", "c", "h">>
key_path == <<"p", "a", "t", "h">>

\* one line of a block mapping: indent, key, ": ", value
YamlLine(indent, key, value) ==
    [i \in 1..indent |-> " "] \o key \o <<":">>
        \o (IF value = <<>> THEN <<>> ELSE <<" ">> \o value) \o <<NL>>

\* a plausible slip: the compose path is not written
serde_yaml_to_string_NoPath(project) ==
    YamlLine(0, key_name, project.name)
    \o YamlLine(0, key_source, <<>>)
    \o YamlLine(2, key_url, project.source.url)
    \o YamlLine(2, key_branch, project.source.branch)

\* serde_yaml::to_string(&ProjectFile): the derived Serialize, fields in
\* declaration order, every string of the model a plain scalar
serde_yaml_to_string(project) ==
    YamlLine(0, key_name, project.name)
    \o YamlLine(0, key_source, <<>>)
    \o YamlLine(2, key_url, project.source.url)
    \o YamlLine(2, key_branch, project.source.branch)
    \o YamlLine(2, key_path, project.source.path)

\* the lines of a text, without their line ends
RECURSIVE LinesFrom(_, _, _)
LinesFrom(text, i, cur) ==
    IF i > Len(text) THEN (IF cur = <<>> THEN <<>> ELSE <<cur>>)
    ELSE IF text[i] = NL THEN <<cur>> \o LinesFrom(text, i + 1, <<>>)
    ELSE LinesFrom(text, i + 1, Append(cur, text[i]))

Lines(text) == LinesFrom(text, 1, <<>>)

\* the first position of ch in s, 0 when there is none
FirstIndex(s, ch) ==
    IF \E i \in DOMAIN s : s[i] = ch
    THEN CHOOSE i \in DOMAIN s : s[i] = ch /\ \A j \in 1..(i - 1) : s[j] # ch
    ELSE 0

\* s holds ": ", which ends a key
HasKeyEnd(s) == \E i \in 1..(Len(s) - 1) : s[i] = ":" /\ s[i + 1] = " "

\* one line read as an entry of a block mapping: blank, "key:" (a nested
\* mapping follows), "key: value", or not a mapping entry
ParseYamlLine(line) ==
    LET body == TrimStart(line)
        indent == Len(line) - Len(body)
        colon == FirstIndex(body, ":")
        key == SubSeq(body, 1, colon - 1)
        rest == SubSeq(body, colon + 1, Len(body))
    IN  IF Trim(line) = <<>> THEN [kind |-> "blank"]
        ELSE IF colon <= 1 THEN [kind |-> "error"]
        ELSE IF Trim(rest) = <<>>
             THEN [kind |-> "open", indent |-> indent, key |-> key]
        ELSE IF rest[1] # " " \/ HasKeyEnd(Trim(rest)) THEN [kind |-> "error"]
        ELSE [kind |-> "entry", indent |-> indent, key |-> key,
              value |-> Trim(rest)]

\* the entries of the nested mapping that starts at line i: the lines indented
\* deeper than the key above them, up to the next line at the key's level
RECURSIVE NestedEntries(_, _)
NestedEntries(ls, i) ==
    IF i > Len(ls) \/ ls[i].kind = "error" THEN <<>>
    ELSE IF ls[i].kind = "blank" THEN NestedEntries(ls, i + 1)
    ELSE IF ls[i].indent = 0 THEN <<>>
    ELSE IF ls[i].kind = "entry"
         THEN <<<<ls[i].key, Scalar(ls[i].value)>>>> \o NestedEntries(ls, i + 1)
    ELSE <<<<ls[i].key, Mapping(<<>>)>>>> \o NestedEntries(ls, i + 1)

\* the entries of the top-level mapping from line i on
RECURSIVE TopEntries(_, _)
TopEntries(ls, i) ==
    IF i > Len(ls) THEN <<>>
    ELSE IF ls[i].kind \in {"blank", "error"} \/ ls[i].indent # 0
         THEN TopEntries(ls, i + 1)
    ELSE IF ls[i].kind = "entry"
         THEN <<<<ls[i].key, Scalar(ls[i].value)>>>> \o TopEntries(ls, i + 1)
    ELSE <<<<ls[i].key, Mapping(NestedEntries(ls, i + 1))>>>>
             \o TopEntries(ls, i + 1)

\* a text is a block mapping of depth two when every line is an entry, the
\* first entry is not indented, and only a "key:" line is followed by
\* indented lines
WellFormedYaml(ls) ==
    LET solid == SelectSeq(ls, LAMBDA l : l.kind # "blank")
    IN  /\ \A i \in DOMAIN solid : solid[i].kind # "error"
        /\ \A i \in DOMAIN solid : solid[i].indent \in {0, 2}
        /\ \A i \in DOMAIN solid :
              solid[i].indent = 2 =>
                  /\ i > 1
                  /\ solid[i].kind = "entry"
                  /\ solid[i - 1].indent = 2 \/ solid[i - 1].kind = "open"

\* the YAML document of a text: a mapping, or an error
ParseYaml(text) ==
    LET ls == [i \in DOMAIN Lines(text) |-> ParseYamlLine(Lines(text)[i])]
    IN  IF ~WellFormedYaml(ls) THEN Err("invalid yaml")
        ELSE Ok(Mapping(TopEntries(ls, 1)))

\* the values bound to key in a mapping, in document order
ValuesOf(es, key) ==
    LET hits == SelectSeq(es, LAMBDA e : e[1] = key)
    IN  [i \in DOMAIN hits |-> hits[i][2]]

\* one String field of a struct: present once, a scalar
StringField(es, key) ==
    LET vs == ValuesOf(es, key)
    IN  IF Len(vs) = 0 THEN Err("missing field")
        ELSE IF Len(vs) > 1 THEN Err("duplicate field")
        ELSE IF ~IsScalar(vs[1]) THEN Err("invalid type")
        ELSE Ok(vs[1].scalar)

\* the derived Deserialize of GitSource
GitSource_from_yaml(v) ==
    IF ~IsMapping(v) THEN Err("invalid type")
    ELSE LET url == StringField(v.mapping, key_url)
             branch == StringField(v.mapping, key_branch)
             path == StringField(v.mapping, key_path)
         IN  IF ~url.ok THEN url
             ELSE IF ~branch.ok THEN branch
             ELSE IF ~path.ok THEN path
             ELSE Ok(GitSource(url.value, branch.value, path.value))

\* serde_yaml::from_str::<ProjectFile>: the derived Deserialize; unknown keys
\* are ignored
serde_yaml_from_str(text) ==
    LET doc == ParseYaml(text)
    IN  IF ~doc.ok THEN doc
        ELSE LET name == StringField(doc.value.mapping, key_name)
                 srcs == ValuesOf(doc.value.mapping, key_source)
             IN  IF ~name.ok THEN name
                 ELSE IF Len(srcs) = 0 THEN Err("missing field")
                 ELSE IF Len(srcs) > 1 THEN Err("duplicate field")
                 ELSE LET source == GitSource_from_yaml(srcs[1])
                      IN  IF ~source.ok THEN source
                          ELSE Ok(ProjectFile(name.value, source.value))

\* the text of the test given_invalid_yaml_when_find_all_then_error
InvalidYaml == <<"t", "h", "i", "s", ":", " ", "i", "s", ":", " ", "n", "o", "t", ":", " ", "y", "a", "m", "l">>

----------------------------------------------------------------------------
(* errors/project.rs, errors/compose.rs, errors/git.rs: the error kinds *)

CreateProjectFailed(project_name, reason) ==
    [kind |-> "CreateProjectFailed", project_name |-> project_name,
     reason |-> reason]
ListProjectsFailed(reason) == [kind |-> "ListProjectsFailed", reason |-> reason]
InvalidPath(reason) == [kind |-> "InvalidPath", reason |-> reason]
ProjectNotFound(project_name, reason) ==
    [kind |-> "ProjectNotFound", project_name |-> project_name, reason |-> reason]
ContainerStatusCheckFailed(project_name, reason) ==
    [kind |-> "ContainerStatusCheckFailed", project_name |-> project_name,
     reason |-> reason]

ComposeFileNotFound(path) == [kind |-> "ComposeFileNotFound", path |-> path]
UpFailed(path, reason) == [kind |-> "UpFailed", path |-> path, reason |-> reason]
DownFailed(path, reason) ==
    [kind |-> "DownFailed", path |-> path, reason |-> reason]
ListContainersFailed(path, reason) ==
    [kind |-> "ListContainersFailed", path |-> path, reason |-> reason]

PullFailed(path, reason) == [kind |-> "PullFailed", path |-> path, reason |-> reason]
CloneFailed(url, reason) == [kind |-> "CloneFailed", url |-> url, reason |-> reason]
GetLastCommitTimestampFailed(path, reason) ==
    [kind |-> "GetLastCommitTimestampFailed", path |-> path, reason |-> reason]

Unit == <<>>            \* the value ()
Unknown_name == <<"u", "n", "k", "n", "o", "w", "n">>

----------------------------------------------------------------------------
(* usecases/project.rs: the pure parts of create_project *)

\* a plausible slip: the branch is not checked
validate_create_project_params_NoBranch(project_file) ==
    LET name == ProjectName_new(project_file.name)
    IN  IF ~name.ok
        THEN Err(CreateProjectFailed(project_file.name, name.error))
        ELSE IF Trim(project_file.source.url) = <<>>
        THEN Err(CreateProjectFailed(project_file.name, "Git URL cannot be empty"))
        ELSE Ok(Unit)

\* validate_create_project_params
validate_create_project_params(project_file) ==
    LET name == ProjectName_new(project_file.name)
    IN  IF ~name.ok
        THEN Err(CreateProjectFailed(project_file.name, name.error))
        ELSE IF Trim(project_file.source.url) = <<>>
        THEN Err(CreateProjectFailed(project_file.name, "Git URL cannot be empty"))
        ELSE IF Trim(project_file.source.branch) = <<>>
        THEN Err(CreateProjectFailed(project_file.name,
                                     "Git branch cannot be empty"))
        ELSE Ok(Unit)

\* ProjectUsecase::get_project_file_locations (every String is UTF-8, so
\* to_str never fails and the InvalidPath arm is not taken)
get_project_file_locations(project_file) ==
    LET project_dir == Path_join(manifests_root, project_file.name)
        repository_dir == Path_join(repositories_root, project_file.name)
    IN  [manifest_file |-> Path_join(project_dir, project_yaml),
         manifest_folder |-> project_dir,
         repository_folder |-> repository_dir,
         compose_file |-> Path_join(repository_dir, project_file.source.path)]

----------------------------------------------------------------------------
(* std::fs as create_project uses it *)

\* the prefixes of a path, the path itself last
Prefixes(p) == {SubSeq(p, 1, k) : k \in 0..Len(p)}

\* a plausible slip: fs::create_dir, which fails on an existing directory
create_dir_all_Exclusive(ds, fs, p, io_ok) ==
    IF ~io_ok THEN Err("io error")
    ELSE IF Exists(ds, fs, p) THEN Err("File exists")
    ELSE Ok(ds \cup {Resolve(q) : q \in Prefixes(p)})

\* fs::create_dir_all: Ok when the directory is there already; creates the
\* missing ancestors; fails when a component is a regular file or on an I/O
\* fault of the environment (io_ok = FALSE)
create_dir_all(ds, fs, p, io_ok) ==
    IF ~io_ok THEN Err("io error")
    ELSE IF \E q \in Prefixes(p) : IsFile(fs, q) THEN Err("Not a directory")
    ELSE Ok(ds \cup {Resolve(q) : q \in Prefixes(p)})

\* validate_and_create_required_directories: the second create_dir_all runs
\* only after the first succeeded; io is "ok", "fail_first" or "fail_second".
\* The result carries the directories as they are afterwards.
validate_and_create_required_directories(ds, fs, project_dir, repository_dir, io) ==
    LET first == create_dir_all(ds, fs, project_dir, io # "fail_first")
    IN  IF ~first.ok THEN [result |-> Err(first.error), dirs |-> ds]
        ELSE LET second == create_dir_all(first.value, fs, repository_dir,
                                          io # "fail_second")
             IN  IF ~second.ok
                 THEN [result |-> Err(second.error), dirs |-> first.value]
                 ELSE [result |-> Ok(Unit), dirs |-> second.value]

\* fs::write(dest, content) is File::create(dest)?.write_all(content): the
\* file is opened and cut to length zero, and the bytes are written in a second
\* system call; another thread can run between the two.

\* a plausible slip: OpenOptions::create_new, which refuses an existing file
File_create_Exclusive(ds, fs, dest, io_ok) ==
    LET d == Resolve(dest)
    IN  IF ~io_ok THEN Err("io error")
        ELSE IF d \in DOMAIN fs \/ d \in ds THEN Err("File exists")
        ELSE Ok([q \in DOMAIN fs \cup {d} |-> IF q = d THEN <<>> ELSE fs[q]])

\* a plausible slip: OpenOptions without truncate, an existing file keeps
\* its bytes
File_create_NoTruncate(ds, fs, dest, io_ok) ==
    LET d == Resolve(dest)
    IN  IF ~io_ok THEN Err("io error")
        ELSE IF d \in ds THEN Err("Is a directory")
        ELSE IF d = <<>> \/ SubSeq(d, 1, Len(d) - 1) \notin ds
             THEN Err("No such file or directory")
        ELSE Ok([q \in DOMAIN fs \cup {d} |->
                    IF q \in DOMAIN fs THEN fs[q] ELSE <<>>])

\* File::create: creates dest or truncates it; fails when dest is a directory,
\* when its parent is no directory, or on an I/O fault (io_ok = FALSE)
File_create(ds, fs, dest, io_ok) ==
    LET d == Resolve(dest)
    IN  IF ~io_ok THEN Err("io error")
        ELSE IF d \in ds THEN Err("Is a directory")
        ELSE IF d = <<>> \/ SubSeq(d, 1, Len(d) - 1) \notin ds
             THEN Err("No such file or directory")
        ELSE Ok([q \in DOMAIN fs \cup {d} |-> IF q = d THEN <<>> ELSE fs[q]])

\* a plausible slip: the bytes are appended to what the file holds
write_all_Append(fs, dest, content, io_ok) ==
    LET d == Resolve(dest)
    IN  IF ~io_ok THEN Err("io error")
        ELSE Ok([fs EXCEPT ![d] = @ \o content])

\* write_all on the handle File::create returned, at offset zero: the bytes
\* replace the first Len(content) bytes of the file, what another writer put
\* beyond them stays
write_all(fs, dest, content, io_ok) ==
    LET d == Resolve(dest)
    IN  IF ~io_ok THEN Err("io error")
        ELSE Ok([fs EXCEPT ![d] =
                   content \o SubSeq(@, Len(content) + 1, Len(@))])

\* write_project_definition_file: the text fs::write is handed
write_project_definition_file(project) == serde_yaml_to_string(project)

----------------------------------------------------------------------------
(* repositories/git.rs, repositories/docker_compose_client.rs: the calls of  *)
(* the detached unit.  The external git and docker processes are the         *)
(* environment: their outcome is an input of the step.                       *)

ProcessOutcomes == {"ok", "exit_nonzero", "spawn_error"}

\* what a failing process wrote to its standard error
StderrInputs == { <<>>, <<"e">> }

\* GitClientImpl::clone_repository: the result for an outcome of `git clone`
clone_repository(source, working_dir, outcome) ==
    IF outcome = "spawn_error"
    THEN Err(CloneFailed(source.url, "Failed to execute git clone command"))
    ELSE IF outcome = "exit_nonzero"
    THEN Err(CloneFailed(source.url, "Git clone failed"))
    ELSE Ok(Unit)

\* a plausible slip: a failed pull is reported as a failed clone
pull_result_AsClone(source, working_dir, outcome) ==
    clone_repository(source, working_dir, outcome)

\* GitClientImpl::pull_repository when the directory exists: the result for
\* an outcome of `git pull`
pull_result(source, working_dir, outcome) ==
    IF outcome = "spawn_error"
    THEN Err(PullFailed(working_dir, "Failed to execute git pull command"))
    ELSE IF outcome = "exit_nonzero"
    THEN Err(PullFailed(working_dir, "Git pull failed"))
    ELSE Ok(Unit)

\* a plausible slip: anything that is not a directory is cloned over
falls_back_to_clone_NotDir(ds, fs, working_dir) == ~IsDir(ds, working_dir)

\* GitClientImpl::pull_repository, line 80: !working_dir.exists()
falls_back_to_clone(ds, fs, working_dir) == ~Exists(ds, fs, working_dir)

\* GitClientImpl::pull_repository
pull_repository(ds, fs, source, working_dir, outcome) ==
    IF falls_back_to_clone(ds, fs, working_dir)
    THEN clone_repository(source, working_dir, outcome)
    ELSE pull_result(source, working_dir, outcome)

\* GitClientImpl::execute_git_command: the process that is started, in the
\* given directory or (None) in the directory of the server
execute_git_command(args, working_dir) ==
    [program |-> "git", args |-> args, working_dir |-> working_dir]

\* the external processes one git operation starts
git_processes(op, ds, fs, source, working_dir) ==
    LET clone == execute_git_command(
                     <<"clone", "--branch", source.branch, source.url,
                       working_dir>>, None)
    IN  CASE op = "clone" -> <<clone>>
          [] op = "pull" ->
                IF falls_back_to_clone(ds, fs, working_dir) THEN <<clone>>
                ELSE <<execute_git_command(<<"pull">>, Some(working_dir))>>
          [] op = "log" ->
                <<execute_git_command(<<"log", "-1", "--format=%ct">>,
                                      Some(working_dir))>>

\* the text of a compose file; its content is never read
compose_document == <<"s">>

\* what a successful `git clone` leaves in the workspace: the checkout, with
\* the compose file at compose_file when the repository holds one there
\* (with_compose) and nothing else is in its place
checkout(ds, fs, repository_folder, compose_file, with_compose) ==
    LET f == Resolve(compose_file)
        put == with_compose /\ f # <<>> /\ f \notin ds
        ds2 == ds \cup {Resolve(q) : q \in Prefixes(repository_folder)}
    IN  IF put
        THEN [dirs |-> ds2 \cup {Resolve(q) :
                                   q \in Prefixes(SubSeq(f, 1, Len(f) - 1))},
              files |-> [q \in DOMAIN fs \cup {f} |->
                           IF q = f THEN compose_document ELSE fs[q]]]
        ELSE [dirs |-> ds2, files |-> fs]

\* a plausible slip: only existence is checked, so a directory passes
validate_compose_file_exists_and_not_directory_ExistsOnly(ds, fs, file_path) ==
    IF ~Exists(ds, fs, file_path) THEN Err(ComposeFileNotFound(file_path))
    ELSE Ok(Unit)

\* DockerComposeClient::validate_compose_file_exists_and_not_directory
validate_compose_file_exists_and_not_directory(ds, fs, file_path) ==
    IF ~Exists(ds, fs, file_path) THEN Err(ComposeFileNotFound(file_path))
    ELSE IF ~IsFile(fs, file_path) THEN Err(ComposeFileNotFound(file_path))
    ELSE Ok(Unit)

\* DockerComposeClient::get_working_dir_and_file_name_from
get_working_dir_and_file_name_from(compose_file_path) ==
    LET parent == Path_parent(compose_file_path)
        filename == Path_file_name(compose_file_path)
    IN  IF ~filename.some THEN Err(ComposeFileNotFound(compose_file_path))
        ELSE Ok([working_dir |-> IF parent.some THEN parent.value ELSE <<Dot>>,
                 filename |-> filename.value])

\* format!("<message>: {}", detail): a failure reason is a fixed message and
\* the text put after it
format(message, detail) == [message |-> message, detail |-> detail]

\* String::from_utf8_lossy: a byte that is not UTF-8 becomes U+FFFD
\* ("0xFF" stands for such a byte)
from_utf8_lossy(bytes) ==
    [i \in DOMAIN bytes |-> IF bytes[i] = "0xFF" THEN "U+FFFD" ELSE bytes[i]]

\* the text of the io::Error of a process that could not be started
spawn_error_text == <<"o", "s">>

\* DockerComposeClient::execute_docker_command: the process that is started
execute_docker_command(args, working_dir) ==
    [program |-> "docker", args |-> args, working_dir |-> working_dir]

\* the external processes one compose operation starts: none when the file
\* check or the file name fails (the ? operators return before line 161)
docker_processes(ds, fs, compose_file_path, subcommand) ==
    LET v == validate_compose_file_exists_and_not_directory(ds, fs,
                                                            compose_file_path)
        w == get_working_dir_and_file_name_from(compose_file_path)
    IN  IF ~v.ok THEN <<>>
        ELSE IF ~w.ok THEN <<>>
        ELSE <<execute_docker_command(
                   <<"compose", "-f", w.value.filename>> \o subcommand,
                   w.value.working_dir)>>

\* a plausible slip: a failed `up` reports the generic message only
up_result_NoStderr(compose_file_path, outcome, stderr) ==
    IF outcome = "ok" THEN Ok(Unit)
    ELSE Err(UpFailed(compose_file_path,
                 format("Failed to execute docker compose up command",
                        spawn_error_text)))

\* DockerComposeClient::up after the file check: the result for an outcome of
\* `docker compose -f <file> up -d` and the standard error it wrote
up_result(compose_file_path, outcome, stderr) ==
    IF outcome = "spawn_error"
    THEN Err(UpFailed(compose_file_path,
                 format("Failed to execute docker compose up command",
                        spawn_error_text)))
    ELSE IF outcome = "exit_nonzero"
    THEN Err(UpFailed(compose_file_path,
                      format("Docker compose up failed",
                             from_utf8_lossy(stderr))))
    ELSE Ok(Unit)

\* DockerComposeClient::up
up(ds, fs, compose_file_path, outcome, stderr) ==
    LET v == validate_compose_file_exists_and_not_directory(ds, fs,
                                                            compose_file_path)
        w == get_working_dir_and_file_name_from(compose_file_path)
    IN  IF ~v.ok THEN v
        ELSE IF ~w.ok THEN w
        ELSE up_result(compose_file_path, outcome, stderr)

\* DockerComposeClient::down
down(ds, fs, compose_file_path, outcome, stderr) ==
    LET v == validate_compose_file_exists_and_not_directory(ds, fs,
                                                            compose_file_path)
        w == get_working_dir_and_file_name_from(compose_file_path)
    IN  IF ~v.ok THEN v
        ELSE IF ~w.ok THEN w
        ELSE IF outcome = "spawn_error"
        THEN Err(DownFailed(compose_file_path,
                     format("Failed to execute docker compose down command",
                            spawn_error_text)))
        ELSE IF outcome = "exit_nonzero"
        THEN Err(DownFailed(compose_file_path,
                            format("Docker compose down failed",
                                   from_utf8_lossy(stderr))))
        ELSE Ok(Unit)

----------------------------------------------------------------------------
(* State of the calls *)

CallIds == 1..MaxCalls

NoResult == [ok |-> FALSE, error |-> [kind |-> "none"]]
NoFile == ProjectFile(<<>>, GitSource(<<>>, <<>>, <<>>))
NoLocations ==
    [manifest_file |-> <<>>, manifest_folder |-> <<>>,
     repository_folder |-> <<>>, compose_file |-> <<>>]

IdleCall ==
    [pc |-> "idle", project_file |-> NoFile, locations |-> NoLocations,
     result |-> NoResult, ops |-> <<>>, prior |-> {}]

\* the closure drops both results (let _): the unit keeps only how each call
\* ended, "none" before it has returned
NoUnit == [pc |-> "none", clone_result |-> "none", up_result |-> "none",
           trace |-> <<>>, up_path |-> <<>>]

Ended(r) == IF r.ok THEN "ok" ELSE r.error.kind

\* the arguments create_project is called with
ValidFileInputs ==
    { ProjectFile(<<"a">>, GitSource(<<"u">>, <<"m">>, <<"c">>)),
      ProjectFile(<<"a">>, GitSource(<<"v", "v", "v">>, <<"m">>, <<"c">>)) }
InvalidNameInputs ==
    { <<>>, <<" ">>, <<"a", "/", "b">>, [i \in 1..(MaxNameLen + 1) |-> "x"] }
InvalidFileInputs ==
    { ProjectFile(n, GitSource(<<"u">>, <<"m">>, <<"c">>)) : n \in InvalidNameInputs }
    \cup { ProjectFile(<<"a">>, GitSource(u, <<"m">>, <<"c">>)) : u \in {<<>>, <<" ">>} }
    \cup { ProjectFile(<<"a">>, GitSource(<<"u">>, <<>>, <<"c">>)) }

ProjectFileInputs == ValidFileInputs \cup InvalidFileInputs

EmptyFiles == [q \in {} |-> <<>>]

\* the workspace before the first call: the root directory alone
EmptyWorkspace == [dirs |-> {<<>>}, files |-> EmptyFiles]

\* the arguments of the single caller of SpecList: names that pass validation
\* and are no plain directory names
ListFileInputs ==
    { ProjectFile(n, GitSource(<<"u">>, <<"m">>, <<"c">>)) :
        n \in { <<"a">>, <<".">>, <<".", ".">> } }

\* the workspaces a listing can find at start: an empty one; one in which a
\* file that is not YAML lies under the manifests root; one that holds the
\* deployed project b; one that holds a deployed project with a refused name
bad_yml == <<"b", "a", "d", ".", "y", "m", "l">>
project_b == ProjectFile(<<"b">>, GitSource(<<"u">>, <<"m">>, <<"c">>))
\* a manifest put there by hand whose name ProjectName::new refuses
project_bar == ProjectFile(<<"b", "|">>, GitSource(<<"u">>, <<"m">>, <<"c">>))
DeployedWorkspace(project_file) ==
    LET loc == get_project_file_locations(project_file)
    IN  [dirs |-> {Resolve(q) : q \in Prefixes(loc.manifest_folder)
                                        \cup Prefixes(loc.repository_folder)},
         files |-> [q \in {loc.manifest_file, loc.compose_file} |->
                      IF q = loc.manifest_file
                      THEN serde_yaml_to_string(project_file)
                      ELSE compose_document]]
InitialWorkspaces ==
    { EmptyWorkspace,
      [dirs |-> {Resolve(q) : q \in Prefixes(manifests_root)},
       files |-> [q \in {Append(manifests_root, bad_yml)} |-> InvalidYaml]],
      DeployedWorkspace(project_b),
      DeployedWorkspace(project_bar) }

----------------------------------------------------------------------------
(* ProjectUsecase::create_project, one action per step between which another *)
(* thread can run                                                            *)

\* the project name of the error for a failed directory creation: the file
\* name of the manifest folder, "unknown" when it has none
directories_error(locations, e) ==
    LET n == Path_file_name(locations.manifest_folder)
    IN  CreateProjectFailed(IF n.some THEN n.value ELSE Unknown_name, e)

\* a plausible slip: the call joins the unit and reports its failure
create_project_return_Joined(u) ==
    IF u.clone_result = "CloneFailed" THEN Err(CloneFailed(<<>>, "joined"))
    ELSE Ok(Unit)

\* the value create_project returns after spawn_blocking: the JoinHandle is
\* dropped, nothing of the unit is read
create_project_return(u) == Ok(Unit)

\* lines 47-64: validation and the four locations, then the directories.
\* A call that fails validation returns before anything is done.
CreateProjectCall(c, project_file, io) ==
    /\ call[c].pc = "idle"
    /\ IF c = 1 THEN TRUE ELSE call[c - 1].pc # "idle"
    /\ LET v == validate_create_project_params(project_file)
           loc == get_project_file_locations(project_file)
           r == validate_and_create_required_directories(
                    dirs, files, loc.manifest_folder, loc.repository_folder, io)
       IN  IF ~v.ok
           THEN /\ call' = [call EXCEPT ![c].pc = "returned",
                                        ![c].project_file = project_file,
                                        ![c].result = v]
                /\ dirs' = dirs
           ELSE /\ dirs' = r.dirs
                /\ call' = [call EXCEPT ![c] =
                     [@ EXCEPT !.pc = IF r.result.ok THEN "directories"
                                      ELSE "returned",
                               !.project_file = project_file,
                               !.locations = loc,
                               !.ops = <<"create_dir_all">>,
                               !.prior = {d \in CallIds :
                                            call[d].pc = "returned"},
                               !.result = IF r.result.ok THEN @
                                          ELSE Err(directories_error(
                                                       loc, r.result.error))]]
    /\ UNCHANGED <<containers, status, files, log, unit, list, client>>

\* the failure of write_project_definition_file as create_project reports it
write_error(project_file, e) == CreateProjectFailed(project_file.name, e)

\* lines 66-70, first half of fs::write: the manifest is opened and truncated
OpenManifest(c, io_ok) ==
    /\ call[c].pc = "directories"
    /\ LET dest == call[c].locations.manifest_file
           r == File_create(dirs, files, dest, io_ok)
       IN  IF r.ok
           THEN /\ files' = r.value
                /\ log' = Append(log, [call |-> c, op |-> "open",
                                       path |-> Resolve(dest)])
                /\ call' = [call EXCEPT ![c].pc = "opened",
                                        ![c].ops = Append(@, "write")]
           ELSE /\ UNCHANGED <<files, log>>
                /\ call' = [call EXCEPT ![c].pc = "returned",
                                        ![c].ops = Append(@, "write"),
                                        ![c].result = Err(write_error(
                                            call[c].project_file, r.error))]
    /\ UNCHANGED <<containers, status, dirs, unit, list, client>>

\* lines 66-70, second half of fs::write: the serialized definition is written
WriteManifest(c, io_ok) ==
    /\ call[c].pc = "opened"
    /\ LET dest == call[c].locations.manifest_file
           r == write_all(files, dest,
                          write_project_definition_file(call[c].project_file),
                          io_ok)
       IN  IF r.ok
           THEN /\ files' = r.value
                /\ log' = Append(log, [call |-> c, op |-> "write",
                                       path |-> Resolve(dest)])
                /\ call' = [call EXCEPT ![c].pc = "written"]
           ELSE /\ UNCHANGED <<files, log>>
                /\ call' = [call EXCEPT ![c].pc = "returned",
                                        ![c].result = Err(write_error(
                                            call[c].project_file, r.error))]
    /\ UNCHANGED <<containers, status, dirs, unit, list, client>>

\* lines 72-88: spawn_blocking hands the closure to the blocking pool
SpawnUnit(c) ==
    /\ call[c].pc = "written"
    /\ call' = [call EXCEPT ![c].pc = "spawned", ![c].ops = Append(@, "spawn")]
    /\ unit' = [unit EXCEPT ![c].pc = "scheduled"]
    /\ UNCHANGED <<containers, status, dirs, files, log, list, client>>

\* line 90
CreateProjectReturn(c) ==
    /\ call[c].pc = "spawned"
    /\ call' = [call EXCEPT ![c].pc = "returned",
                            ![c].result = create_project_return(unit[c])]
    /\ UNCHANGED <<containers, status, dirs, files, log, unit, list, client>>

----------------------------------------------------------------------------
(* The detached unit, lines 82-88 *)

\* a plausible slip: compose-up is started without waiting for the clone
up_may_start_Early(u) == u.pc \in {"scheduled", "cloning", "cloned"}

\* a plausible slip: compose-up is skipped when the clone has failed
up_may_start_AfterOk(u) == u.pc = "cloned" /\ u.clone_result = "ok"

\* the closure runs its two statements in order: up is called when
\* clone_repository has returned
up_may_start(u) == u.pc = "cloned"

\* a plausible slip: a failed clone is tried again
clone_may_start_Retry(u) ==
    \/ u.pc = "scheduled"
    \/ u.pc = "cloned" /\ u.clone_result # "ok"

\* a plausible slip: a unit waits while another unit runs git or docker
clone_may_start_Locked(u) ==
    /\ u.pc = "scheduled"
    /\ \A d \in CallIds : unit[d].pc \notin {"cloning", "composing"}

\* the closure calls clone_repository once, as its first statement
clone_may_start(u) == u.pc = "scheduled"

\* line 83: clone_repository is called, git runs
CloneCall(c) ==
    /\ clone_may_start(unit[c])
    /\ unit' = [unit EXCEPT ![c].pc = "cloning",
                            ![c].trace = Append(@, "clone_call")]
    /\ UNCHANGED <<containers, status, dirs, files, log, call, list, client>>

\* line 83: clone_repository returns; its result is dropped (let _)
CloneReturn(c, outcome, with_compose) ==
    /\ unit[c].pc = "cloning"
    /\ LET loc == call[c].locations
           r == clone_repository(call[c].project_file.source,
                                 loc.repository_folder, outcome)
           w == checkout(dirs, files, loc.repository_folder, loc.compose_file,
                         with_compose)
       IN  /\ unit' = [unit EXCEPT ![c].pc = "cloned",
                                   ![c].clone_result = Ended(r),
                                   ![c].trace = Append(@, "clone_ret")]
           /\ dirs' = IF r.ok THEN w.dirs ELSE dirs
           /\ files' = IF r.ok THEN w.files ELSE files
    /\ ~(outcome # "ok" /\ with_compose)
    /\ UNCHANGED <<containers, status, log, call, list, client>>

\* line 87: up is called; without a regular compose file it returns
\* ComposeFileNotFound at once, otherwise docker runs
UpCall(c) ==
    /\ up_may_start(unit[c])
    /\ LET path == call[c].locations.compose_file
           v == validate_compose_file_exists_and_not_directory(dirs, files, path)
       IN  unit' = [unit EXCEPT ![c] =
                IF v.ok
                THEN [@ EXCEPT !.pc = "composing", !.up_path = path,
                               !.trace = @ \o <<"up_call", "docker_up">>]
                ELSE [@ EXCEPT !.pc = "done", !.up_result = Ended(v),
                               !.up_path = path,
                               !.trace = @ \o <<"up_call", "up_ret">>]]
    /\ UNCHANGED <<containers, status, dirs, files, log, call, list, client>>

\* line 87: up returns; its result is dropped (let _)
UpReturn(c, outcome, stderr) ==
    /\ unit[c].pc = "composing"
    /\ unit' = [unit EXCEPT ![c].pc = "done",
                            ![c].up_result = Ended(up_result(
                                call[c].locations.compose_file, outcome,
                                stderr)),
                            ![c].trace = Append(@, "up_ret")]
    /\ UNCHANGED <<containers, status, dirs, files, log, call, list, client>>

----------------------------------------------------------------------------
(* repositories/docker_compose_client.rs: list_containers *)

\* one line of `docker compose ps --all --format json`: a JSON value given
\* by its fields (none for a value that is not an object), a line that is
\* not JSON, or a line of white space
JsonLine(fields) == [json |-> TRUE, blank |-> FALSE, fields |-> fields]
NotJsonLine == [json |-> FALSE, blank |-> FALSE]
BlankLine == [json |-> FALSE, blank |-> TRUE]

\* serde_json::Value: a string, or a value of another type
JsonString(s) == [is_str |-> TRUE, s |-> s]
JsonNumber == [is_str |-> FALSE, s |-> "0"]

PsLine(name, state) ==
    JsonLine([k \in {"Name", "State"} |->
                 JsonString(IF k = "Name" THEN name ELSE state)])

\* the message of the serde_json error for a line that is not JSON
serde_json_error_text == <<"expected value at line 1 column 1">>

\* a plausible slip: a field of any type is taken
extract_json_string_field_AnyType(json, field, path) ==
    IF field \in DOMAIN json.fields THEN Ok(json.fields[field].s)
    ELSE Err(ListContainersFailed(path,
                 format("Missing field in Docker compose output", <<field>>)))

\* DockerComposeClient::extract_json_string_field: json.get(field), as_str
extract_json_string_field(json, field, path) ==
    IF field \in DOMAIN json.fields /\ json.fields[field].is_str
    THEN Ok(json.fields[field].s)
    ELSE Err(ListContainersFailed(path,
                 format("Missing field in Docker compose output", <<field>>)))

\* DockerComposeClient::parse_container_state
parse_container_state(state_str, path) ==
    CASE state_str = "paused" -> Ok("Paused")
      [] state_str = "restarting" -> Ok("Restarting")
      [] state_str = "removing" -> Ok("Removing")
      [] state_str = "running" -> Ok("Running")
      [] state_str = "dead" -> Ok("Dead")
      [] state_str = "created" -> Ok("Created")
      [] state_str = "exited" -> Ok("Exited")
      [] OTHER -> Err(ListContainersFailed(path,
                     format("Unknown container state", <<state_str>>)))

\* DockerComposeClient::parse_container_json
parse_container_json(json_line, path) ==
    IF ~json_line.json
    THEN Err(ListContainersFailed(path,
                 format("Failed to parse Docker compose output",
                        serde_json_error_text)))
    ELSE LET name == extract_json_string_field(json_line, "Name", path)
             state_str == extract_json_string_field(json_line, "State", path)
         IN  IF ~name.ok THEN name
             ELSE IF ~state_str.ok THEN state_str
             ELSE LET state == parse_container_state(state_str.value, path)
                  IN  IF ~state.ok THEN state
                      ELSE Ok(Container(name.value, state.value))

\* collect::<Result<Vec<_>, _>> over the parsed lines: the first error, or all
RECURSIVE collect_containers(_, _)
collect_containers(lines, path) ==
    IF lines = <<>> THEN Ok(<<>>)
    ELSE LET c == parse_container_json(Head(lines), path)
         IN  IF ~c.ok THEN c
             ELSE LET rest == collect_containers(Tail(lines), path)
                  IN  IF ~rest.ok THEN rest ELSE Ok(<<c.value>> \o rest.value)

\* DockerComposeClient::list_containers: the file check, then the result for
\* an outcome and the standard output of `docker compose ps`
list_containers(ds, fs, compose_file_path, outcome, stdout, stderr) ==
    LET v == validate_compose_file_exists_and_not_directory(ds, fs,
                                                            compose_file_path)
        w == get_working_dir_and_file_name_from(compose_file_path)
    IN  IF ~v.ok THEN v
        ELSE IF ~w.ok THEN w
        ELSE IF outcome = "spawn_error"
        THEN Err(ListContainersFailed(compose_file_path,
                     format("Failed to execute docker compose ps command",
                            spawn_error_text)))
        ELSE IF outcome = "exit_nonzero"
        THEN Err(ListContainersFailed(compose_file_path,
                     format("Docker compose ps command returned non-zero exit status",
                            from_utf8_lossy(stderr))))
        ELSE collect_containers(SelectSeq(stdout, LAMBDA l : ~l.blank),
                                compose_file_path)

----------------------------------------------------------------------------
(* repositories/git.rs: get_last_commit_timestamp *)

Digits == <<"0", "1", "2", "3", "4", "5", "6", "7", "8", "9">>
IsDigit(ch) == \E d \in DOMAIN Digits : Digits[d] = ch
DigitValue(ch) == (CHOOSE d \in DOMAIN Digits : Digits[d] = ch) - 1

\* an i64 as its sign and its decimal digits without leading zeros (zero has
\* no digit and no sign)
Int64(negative, magnitude) ==
    [negative |-> negative /\ magnitude # <<>>, magnitude |-> magnitude]

RECURSIVE StripZeros(_)
StripZeros(s) == IF s # <<>> /\ Head(s) = "0" THEN StripZeros(Tail(s)) ELSE s

\* a <= b for digit sequences without leading zeros
RECURSIVE DigitsLeq(_, _)
DigitsLeq(a, b) ==
    IF Len(a) # Len(b) THEN Len(a) < Len(b)
    ELSE IF a = <<>> THEN TRUE
    ELSE IF Head(a) # Head(b) THEN DigitValue(Head(a)) < DigitValue(Head(b))
    ELSE DigitsLeq(Tail(a), Tail(b))

\* i64::MAX = 9223372036854775807 and the magnitude of i64::MIN
i64_limit(negative) ==
    <<"9", "2", "2", "3", "3", "7", "2", "0", "3", "6", "8", "5", "4", "7",
      "7", "5", "8", "0">> \o (IF negative THEN <<"8">> ELSE <<"7">>)

\* str::parse::<i64>: an optional sign and at least one digit, within i64
parse_i64(s) ==
    LET signed == s # <<>> /\ Head(s) \in {"+", "-"}
        body == IF signed THEN Tail(s) ELSE s
        negative == signed /\ Head(s) = "-"
    IN  IF s = <<>> THEN Err("cannot parse integer from empty string")
        ELSE IF body = <<>> \/ \E i \in DOMAIN body : ~IsDigit(body[i])
        THEN Err("invalid digit found in string")
        ELSE IF ~DigitsLeq(StripZeros(body), i64_limit(negative))
        THEN Err("number too large to fit in target type")
        ELSE Ok(Int64(negative, StripZeros(body)))

\* the seconds of DateTime::<Utc>::MAX_UTC (8210266876799) and the magnitude
\* of those of MIN_UTC (-8334601228800)
timestamp_limit(negative) ==
    IF negative
    THEN <<"8", "3", "3", "4", "6", "0", "1", "2", "2", "8", "8", "0", "0">>
    ELSE <<"8", "2", "1", "0", "2", "6", "6", "8", "7", "6", "7", "9", "9">>

\* Utc.timestamp_opt(epoch, 0).single(): the instant, when chrono can hold it
timestamp_opt(epoch) ==
    IF DigitsLeq(epoch.magnitude, timestamp_limit(epoch.negative))
    THEN Some(epoch) ELSE None

\* the instant 1970-01-01T00:00:00Z
UNIX_EPOCH == Int64(FALSE, <<>>)

\* a plausible slip: output that is no timestamp becomes the epoch
get_last_commit_timestamp_Default(working_dir, outcome, stdout) ==
    IF outcome = "spawn_error"
    THEN Err(GetLastCommitTimestampFailed(working_dir,
                 "Failed to execute git log command"))
    ELSE IF outcome = "exit_nonzero"
    THEN Err(GetLastCommitTimestampFailed(working_dir, "Git log command failed"))
    ELSE LET epoch == parse_i64(Trim(stdout))
         IN  IF ~epoch.ok THEN Ok(UNIX_EPOCH) ELSE Ok(epoch.value)

\* GitClientImpl::get_last_commit_timestamp: the result for an outcome and the
\* standard output of `git log -1 --format=%ct`
get_last_commit_timestamp(working_dir, outcome, stdout) ==
    IF outcome = "spawn_error"
    THEN Err(GetLastCommitTimestampFailed(working_dir,
                 "Failed to execute git log command"))
    ELSE IF outcome = "exit_nonzero"
    THEN Err(GetLastCommitTimestampFailed(working_dir, "Git log command failed"))
    ELSE LET epoch == parse_i64(Trim(stdout))
         IN  IF ~epoch.ok
             THEN Err(GetLastCommitTimestampFailed(working_dir,
                          "Failed to parse timestamp"))
             ELSE LET timestamp == timestamp_opt(epoch.value)
                  IN  IF ~timestamp.some
                      THEN Err(GetLastCommitTimestampFailed(working_dir,
                                   "Invalid timestamp value"))
                      ELSE Ok(timestamp.value)

----------------------------------------------------------------------------
(* usecases/project.rs: manifest discovery *)

\* the characters of the model in byte order
ByteOrder ==
    <<" ", "*", ".", "/", ":", "<", ">", "?", "\\", "a", "b", "c", "d", "e", "j",
      "l", "m", "n", "o", "p", "r", "t", "u", "v", "w", "x", "y", "|">>
Byte(ch) == CHOOSE i \in DOMAIN ByteOrder : ByteOrder[i] = ch

\* byte-wise order of two names
RECURSIVE NameLess(_, _)
NameLess(a, b) ==
    IF b = <<>> THEN FALSE
    ELSE IF a = <<>> THEN TRUE
    ELSE IF Byte(Head(a)) < Byte(Head(b)) THEN TRUE
    ELSE IF Byte(Head(b)) < Byte(Head(a)) THEN FALSE
    ELSE NameLess(Tail(a), Tail(b))

\* component-wise order of two paths
RECURSIVE PathLess(_, _)
PathLess(p, q) ==
    IF q = <<>> THEN FALSE
    ELSE IF p = <<>> THEN TRUE
    ELSE IF NameLess(Head(p), Head(q)) THEN TRUE
    ELSE IF NameLess(Head(q), Head(p)) THEN FALSE
    ELSE PathLess(Tail(p), Tail(q))

\* the paths of a set in alphabetical order, as glob yields them
RECURSIVE SortedPaths(_)
SortedPaths(S) ==
    IF S = {} THEN <<>>
    ELSE LET least == CHOOSE p \in S : \A q \in S \ {p} : PathLess(p, q)
         IN  <<least>> \o SortedPaths(S \ {least})

yml == <<".", "y", "m", "l">>
yaml == <<".", "y", "a", "m", "l">>

\* glob("<root>/**/*<ext>"): every entry below root, file or directory, whose
\* name ends with ext
glob(ds, fs, root, ext) ==
    SortedPaths({ p \in ds \cup DOMAIN fs :
                    /\ Len(p) > Len(root)
                    /\ SubSeq(p, 1, Len(root)) = root
                    /\ EndsWith(p[Len(p)], ext) })

\* find_all_file_paths_in: the matches of **/*.yml, then those of **/*.yaml
find_all_file_paths_in(ds, fs, root, glob_ok) ==
    IF ~glob_ok THEN Err("glob error")
    ELSE Ok(glob(ds, fs, root, yml) \o glob(ds, fs, root, yaml))

\* fs::read_to_string; fault is an I/O fault of the environment
read_to_string(ds, fs, p, fault) ==
    IF fault THEN Err("io error")
    ELSE IF IsDir(ds, p) THEN Err("Is a directory")
    ELSE IF ~IsFile(fs, p) THEN Err("No such file or directory")
    ELSE Ok(fs[Resolve(p)])

\* collect::<Result<Vec<_>, _>>: the values, or the first error
RECURSIVE collect(_)
collect(results) ==
    IF results = <<>> THEN Ok(<<>>)
    ELSE IF ~Head(results).ok THEN Head(results)
    ELSE LET rest == collect(Tail(results))
         IN  IF ~rest.ok THEN rest ELSE Ok(<<Head(results).value>> \o rest.value)

\* a plausible slip: manifests that do not parse are skipped (filter_map)
find_all_project_files_in_Lenient(ds, fs, root, glob_ok, fault_at) ==
    LET paths == find_all_file_paths_in(ds, fs, root, glob_ok)
    IN  IF ~paths.ok THEN paths
        ELSE LET contents == collect([i \in DOMAIN paths.value |->
                     read_to_string(ds, fs, paths.value[i], fault_at = i)])
             IN  IF ~contents.ok THEN Ok(<<>>)
                 ELSE LET parsed == [i \in DOMAIN contents.value |->
                                        serde_yaml_from_str(contents.value[i])]
                          good == SelectSeq(parsed, LAMBDA r : r.ok)
                      IN  Ok([i \in DOMAIN good |-> good[i].value])

\* find_all_project_files_in: all paths, then all contents, then all manifests,
\* each step stopping at its first error
find_all_project_files_in(ds, fs, root, glob_ok, fault_at) ==
    LET paths == find_all_file_paths_in(ds, fs, root, glob_ok)
    IN  IF ~paths.ok THEN paths
        ELSE LET contents == collect([i \in DOMAIN paths.value |->
                     read_to_string(ds, fs, paths.value[i], fault_at = i)])
             IN  IF ~contents.ok THEN contents
                 ELSE collect([i \in DOMAIN contents.value |->
                                 serde_yaml_from_str(contents.value[i])])

\* discover_all_project_files_in: an error becomes ListProjectsFailed
discover_all_project_files_in(ds, fs, root, glob_ok, fault_at) ==
    LET r == find_all_project_files_in(ds, fs, root, glob_ok, fault_at)
    IN  IF r.ok THEN r ELSE Err(ListProjectsFailed(r.error))

----------------------------------------------------------------------------
(* usecases/project.rs: one project of the listing *)

Project(name, source, project_status, last_updated_at) ==
    [name |-> name, source |-> source, status |-> project_status,
     last_updated_at |-> last_updated_at]

\* ProjectUsecase::container_status_for: the error carries the name of the
\* directory the compose file lies in, "unknown" when there is none
container_status_for(ds, fs, compose_file_path, outcome, stdout, stderr) ==
    LET parent == Path_parent(compose_file_path)
        n == IF parent.some THEN Path_file_name(parent.value) ELSE None
        project_name == IF n.some THEN n.value ELSE Unknown_name
        cs == list_containers(ds, fs, compose_file_path, outcome, stdout,
                              stderr)
    IN  IF ~cs.ok THEN Err(ContainerStatusCheckFailed(project_name, cs.error))
        ELSE Ok(determine_project_status_from(cs.value))

\* ProjectUsecase::determine_current_project_status
determine_current_project_status(ds, fs, project_file, outcome, stdout, stderr) ==
    container_status_for(ds, fs,
        get_project_file_locations(project_file).compose_file, outcome, stdout,
        stderr)

\* a plausible slip: the timestamp is read in the manifest directory
repository_dir_of_Manifests(project_file) ==
    Path_join(manifests_root, project_file.name)

\* get_last_repository_update_timestamp, lines 175-176: the directory whose
\* last commit is read
repository_dir_of(project_file) ==
    Path_join(repositories_root, project_file.name)

\* a plausible slip: a missing timestamp becomes the epoch instead of an error
get_last_repository_update_timestamp_Default(project_file, outcome, stdout) ==
    LET r == get_last_commit_timestamp(repository_dir_of(project_file),
                                       outcome, stdout)
    IN  IF r.ok THEN r ELSE Ok(UNIX_EPOCH)

\* ProjectUsecase::get_last_repository_update_timestamp
get_last_repository_update_timestamp(project_file, outcome, stdout) ==
    LET r == get_last_commit_timestamp(repository_dir_of(project_file),
                                       outcome, stdout)
    IN  IF r.ok THEN r
        ELSE Err(ProjectNotFound(project_file.name, r.error))

\* a plausible slip: the derived status is dropped
assemble_project_NoStatus(project_file, project_status, last_updated_at) ==
    LET name == ProjectName_new(project_file.name)
    IN  IF ~name.ok THEN Err(InvalidPath(name.error))
        ELSE Ok(Project(name.value, project_file.source, Unknown,
                        last_updated_at))

\* the closure of build_project_from that runs after both collaborator calls
assemble_project(project_file, project_status, last_updated_at) ==
    LET name == ProjectName_new(project_file.name)
    IN  IF ~name.ok THEN Err(InvalidPath(name.error))
        ELSE Ok(Project(name.value, project_file.source, project_status,
                        last_updated_at))

----------------------------------------------------------------------------
(* ProjectUsecase::list_projects, one action per collaborator call *)

\* no direct call has been made
IdleClient == [op |-> "none"]

IdleList ==
    [pc |-> "idle", n |-> 0, seen |-> <<>>, project_files |-> <<>>, idx |-> 0,
     project_status |-> NoStatus, projects |-> <<>>, result |-> NoResult,
     trace |-> <<>>, created |-> {}]

\* the inputs the environment gives the listing
PsLineInputs ==
    { PsLine("s", "running"), PsLine("s", "exited"),
      JsonLine([k \in {"Name"} |-> JsonString("s")]) }
PsOutputs == UNION { [1..n -> PsLineInputs] : n \in 0..MaxPsLines }
TimestampOutputs == { <<"7">>, <<"x">>, <<>> }

\* history: what discovery found, each path with the content read from it
Snapshot(paths, fault_at) ==
    [i \in DOMAIN paths |->
        LET r == read_to_string(dirs, files, paths[i], fault_at = i)
        IN  [path |-> paths[i], readable |-> r.ok,
             content |-> IF r.ok THEN r.value ELSE <<>>]]

\* lines 94-99 up to build_projects_from: discovery reads and parses every
\* manifest before the first collaborator call
\* (history: created keeps the create_project calls that had returned Ok
\* when the listing was called)
ListProjectsCall(glob_ok, fault_at) ==
    /\ list.pc \in {"idle", "done"}
    /\ list.n < MaxLists
    /\ LET paths == find_all_file_paths_in(dirs, files, manifests_root, glob_ok)
           r == discover_all_project_files_in(dirs, files, manifests_root,
                                              glob_ok, fault_at)
       IN  /\ fault_at \in 0..(IF paths.ok THEN Len(paths.value) ELSE 0)
           /\ list' = [IdleList EXCEPT
                !.n = list.n + 1,
                !.created = {c \in CallIds : /\ call[c].pc = "returned"
                                             /\ call[c].result.ok},
                !.seen = IF paths.ok THEN Snapshot(paths.value, fault_at) ELSE <<>>,
                !.pc = IF r.ok /\ r.value # <<>> THEN "containers" ELSE "done",
                !.project_files = IF r.ok THEN r.value ELSE <<>>,
                !.idx = IF r.ok /\ r.value # <<>> THEN 1 ELSE 0,
                !.result = IF r.ok THEN (IF r.value = <<>> THEN Ok(<<>>) ELSE NoResult)
                           ELSE r]
    /\ UNCHANGED <<containers, status, dirs, files, log, call, unit, client>>

\* a plausible slip: the timestamp is queried although list_containers failed
ListContainersStep_Continue(outcome, stdout, stderr) ==
    /\ list.pc = "containers"
    /\ LET project_file == list.project_files[list.idx]
           cs == list_containers(dirs, files,
                     get_project_file_locations(project_file).compose_file,
                     outcome, stdout, stderr)
           entry == [op |-> "list_containers", name |-> project_file.name,
                     ok |-> cs.ok,
                     path |-> get_project_file_locations(project_file).compose_file,
                     value |-> IF cs.ok THEN cs.value ELSE <<>>]
       IN  list' = [list EXCEPT !.pc = "timestamp",
                                !.project_status =
                                    IF cs.ok
                                    THEN determine_project_status_from(cs.value)
                                    ELSE Unknown,
                                !.trace = Append(@, entry)]
    /\ UNCHANGED <<containers, status, dirs, files, log, call, unit, client>>

\* lines 146, 163-204: the status of the current project
ListContainersStep(outcome, stdout, stderr) ==
    /\ list.pc = "containers"
    /\ LET project_file == list.project_files[list.idx]
           r == determine_current_project_status(dirs, files, project_file,
                                                 outcome, stdout, stderr)
           cs == list_containers(dirs, files,
                     get_project_file_locations(project_file).compose_file,
                     outcome, stdout, stderr)
           entry == [op |-> "list_containers", name |-> project_file.name,
                     ok |-> cs.ok,
                     path |-> get_project_file_locations(project_file).compose_file,
                     value |-> IF cs.ok THEN cs.value ELSE <<>>]
       IN  list' = IF r.ok
                   THEN [list EXCEPT !.pc = "timestamp", !.project_status = r.value,
                                     !.trace = Append(@, entry)]
                   ELSE [list EXCEPT !.pc = "done", !.result = r,
                                     !.trace = Append(@, entry)]
    /\ UNCHANGED <<containers, status, dirs, files, log, call, unit, client>>

\* a plausible slip: the repository is pulled before its timestamp is read,
\* which writes into the checkout
TimestampStep_Pull(outcome, stdout) ==
    /\ list.pc = "timestamp"
    /\ LET project_file == list.project_files[list.idx]
           fetch_head == Resolve(Append(repository_dir_of(project_file),
                                        <<"F", "E", "T", "C", "H">>))
           entry == [op |-> "pull_repository", name |-> project_file.name,
                     ok |-> FALSE, path |-> repository_dir_of(project_file),
                     value |-> UNIX_EPOCH]
       IN  /\ files' = [q \in DOMAIN files \cup {fetch_head} |->
                           IF q = fetch_head THEN <<>> ELSE files[q]]
           /\ list' = [list EXCEPT !.pc = "done",
                                   !.result = Err(PullFailed(
                                       repository_dir_of(project_file), "git")),
                                   !.trace = Append(@, entry)]
    /\ UNCHANGED <<containers, status, dirs, log, call, unit, client>>

\* lines 148-160, 171-186: the timestamp of the current project, then the
\* Project; git cannot run in a directory that does not exist
TimestampStep(outcome, stdout) ==
    /\ list.pc = "timestamp"
    /\ LET project_file == list.project_files[list.idx]
           t == get_last_repository_update_timestamp(project_file, outcome, stdout)
           g == get_last_commit_timestamp(repository_dir_of(project_file),
                                          outcome, stdout)
           entry == [op |-> "get_last_commit_timestamp",
                     name |-> project_file.name, ok |-> g.ok,
                     path |-> repository_dir_of(project_file),
                     value |-> IF g.ok THEN g.value ELSE UNIX_EPOCH]
           project == assemble_project(project_file, list.project_status,
                                       IF t.ok THEN t.value ELSE UNIX_EPOCH)
           last == list.idx = Len(list.project_files)
       IN  /\ outcome # "spawn_error" =>
                  IsDir(dirs, repository_dir_of(project_file))
           /\ list' =
                IF ~t.ok
                THEN [list EXCEPT !.pc = "done", !.result = t,
                                  !.trace = Append(@, entry)]
                ELSE IF ~project.ok
                THEN [list EXCEPT !.pc = "done", !.result = project,
                                  !.trace = Append(@, entry)]
                ELSE [list EXCEPT
                        !.pc = IF last THEN "done" ELSE "containers",
                        !.idx = IF last THEN @ ELSE @ + 1,
                        !.project_status = NoStatus,
                        !.projects = Append(@, project.value),
                        !.result = IF last
                                   THEN Ok(Append(list.projects, project.value))
                                   ELSE @,
                        !.trace = Append(@, entry)]
    /\ UNCHANGED <<containers, status, dirs, files, log, call, unit, client>>

----------------------------------------------------------------------------
(* The specification of the orchestrator *)

Init ==
    /\ containers = <<>>
    /\ status = NoStatus
    /\ dirs = EmptyWorkspace.dirs
    /\ files = EmptyWorkspace.files
    /\ log = <<>>
    /\ call = [c \in CallIds |-> IdleCall]
    /\ unit = [c \in CallIds |-> NoUnit]
    /\ list = IdleList
    /\ client = IdleClient

Next ==
    \/ \E c \in CallIds, project_file \in ProjectFileInputs,
          io \in {"ok", "fail_first", "fail_second"} :
            CreateProjectCall(c, project_file, io)
    \/ \E c \in CallIds, io_ok \in BOOLEAN : OpenManifest(c, io_ok)
    \/ \E c \in CallIds, io_ok \in BOOLEAN : WriteManifest(c, io_ok)
    \/ \E c \in CallIds : SpawnUnit(c)
    \/ \E c \in CallIds : CreateProjectReturn(c)
    \/ \E c \in CallIds : CloneCall(c)
    \/ \E c \in CallIds, outcome \in ProcessOutcomes, with_compose \in BOOLEAN :
            CloneReturn(c, outcome, with_compose)
    \/ \E c \in CallIds : UpCall(c)
    \/ \E c \in CallIds, outcome \in ProcessOutcomes, stderr \in StderrInputs :
            UpReturn(c, outcome, stderr)

Spec == Init /\ [][Next]_vars

----------------------------------------------------------------------------
(* One caller: a create_project call with its unit, and listings, on the   *)
(* workspaces of InitialWorkspaces                                         *)

InitList ==
    /\ containers = <<>>
    /\ status = NoStatus
    /\ \E w \in InitialWorkspaces : dirs = w.dirs /\ files = w.files
    /\ log = <<>>
    /\ call = [c \in CallIds |-> IdleCall]
    /\ unit = [c \in CallIds |-> NoUnit]
    /\ list = IdleList
    /\ client = IdleClient

NextList ==
    \/ \E project_file \in ListFileInputs,
          io \in {"ok", "fail_first", "fail_second"} :
            CreateProjectCall(1, project_file, io)
    \/ \E io_ok \in BOOLEAN : OpenManifest(1, io_ok)
    \/ \E io_ok \in BOOLEAN : WriteManifest(1, io_ok)
    \/ SpawnUnit(1)
    \/ CreateProjectReturn(1)
    \/ CloneCall(1)
    \/ \E outcome \in ProcessOutcomes, with_compose \in BOOLEAN :
            CloneReturn(1, outcome, with_compose)
    \/ UpCall(1)
    \/ \E outcome \in ProcessOutcomes, stderr \in StderrInputs :
            UpReturn(1, outcome, stderr)
    \/ \E glob_ok \in BOOLEAN, fault_at \in 0..MaxFaultAt :
            ListProjectsCall(glob_ok, fault_at)
    \/ \E outcome \in ProcessOutcomes, stdout \in PsOutputs,
          stderr \in StderrInputs :
            ListContainersStep(outcome, stdout, stderr)
    \/ \E outcome \in ProcessOutcomes, stdout \in TimestampOutputs :
            TimestampStep(outcome, stdout)

SpecList == InitList /\ [][NextList]_vars

\* the closure of a unit runs on a thread of its own: once clone_repository
\* has returned, its next statement is executed
SpecListFair == SpecList /\ \A c \in CallIds : WF_vars(UpCall(c))

----------------------------------------------------------------------------
(* Status derivation alone: every container list up to MaxContainers *)

StateLists == UNION { [1..n -> ContainerState] : n \in 0..MaxContainers }

InitStatus ==
    /\ \E ss \in StateLists :
          containers = [i \in DOMAIN ss |-> Container(<<"service", i>>, ss[i])]
    /\ status = NoStatus
    /\ dirs = {<<>>}
    /\ files = EmptyFiles
    /\ log = <<>>
    /\ call = [c \in CallIds |-> IdleCall]
    /\ unit = [c \in CallIds |-> NoUnit]
    /\ list = IdleList
    /\ client = IdleClient

DeriveStatus ==
    /\ status = NoStatus
    /\ status' = determine_project_status_from(containers)
    /\ UNCHANGED <<containers, dirs, files, log, call, unit, list, client>>

NextStatus == DeriveStatus

SpecStatus == InitStatus /\ [][NextStatus]_vars

----------------------------------------------------------------------------
(* Single calls: each function and collaborator operation applied once to    *)
(* every input of a bounded set                                              *)

\* the definitions whose locations are derived: names ProjectName::new
\* accepts, compose paths relative, nested, absolute, empty and with dots
LocationNameInputs == { <<"a">>, <<".">>, <<".", ".">>, <<"b", " ", "c">> }
LocationPathInputs ==
    { <<"c">>, <<"d", "/", "c">>, <<"/", "c">>, <<>>, <<".", ".", "/", "c">>,
      <<".", "/", "c">> }
LocationFileInputs ==
    { ProjectFile(n, GitSource(<<"u">>, <<"m">>, q)) :
        n \in LocationNameInputs, q \in LocationPathInputs }

\* the compose files the client is called with: the regular file of the
\* deployed project, the same file through "..", its directory, the root, a
\* path that does not exist and a path below the regular file
ComposePathInputs ==
    LET loc == get_project_file_locations(project_b)
    IN  { loc.compose_file,
          loc.repository_folder \o <<DotDot>> \o <<project_b.name>>
              \o Components(project_b.source.path),
          loc.repository_folder, <<>>,
          Append(loc.repository_folder, <<"x">>),
          Append(loc.compose_file, <<"x">>) }

\* standard error of the tool, with and without a byte that is not UTF-8
ClientStderrInputs == StderrInputs \cup { <<"e", "0xFF">> }

\* lines of `docker compose ps`: well formed ones, a capitalised state, a
\* missing and a non-string field, a value that is not an object, a line
\* that is not JSON and a blank line
ClientPsLineInputs ==
    PsLineInputs \cup
    { PsLine("s", "Running"), NotJsonLine, BlankLine,
      JsonLine([k \in {"State"} |-> JsonString("running")]),
      JsonLine([k \in {"Name", "State"} |->
                   IF k = "Name" THEN JsonNumber ELSE JsonString("running")]),
      JsonLine([k \in {"Name", "State"} |->
                   IF k = "Name" THEN JsonString("s") ELSE JsonNumber]),
      JsonLine(<<>>) }
ClientPsOutputs == UNION { [1..n -> ClientPsLineInputs] : n \in 0..MaxPsLines }

\* the directories git is called with: the checkout of the deployed project,
\* a path that does not exist and the path of a regular file
GitDirInputs ==
    LET loc == get_project_file_locations(project_b)
    IN  { loc.repository_folder, Append(repositories_root, <<"x">>),
          loc.compose_file }
GitSourceInputs ==
    { project_b.source, GitSource(<<"v", "v", "v">>, <<"m">>, <<"c">>) }

\* what `git log -1 --format=%ct` can print: seconds with the line end, with
\* a sign, with leading zeros, no output, text, two numbers, a fraction, 14
\* digits (beyond chrono) and 20 digits (beyond i64)
ClientTimestampOutputs ==
    TimestampOutputs \cup
    { <<"7", "\n">>, <<"+", "7">>, <<"-", "5">>, <<"0", "0", "7">>, <<"-", "0">>,
      <<"\n">>, <<"-">>, <<"7", " ", "8">>, <<"7", ".", "5">>,
      [i \in 1..14 |-> "9"], <<"-">> \o [i \in 1..14 |-> "9"],
      [i \in 1..20 |-> "1"] }

\* the strings a ProjectName is made from: plain, empty, blank, padded, with
\* each refused character, of 100 and 101 bytes, and of 50 and 51 characters
\* of two bytes
ProjectNameInputs ==
    { <<"a">>, <<>>, <<" ">>, <<"\t">>, <<" ", "a", " ">>, <<".">>,
      [i \in 1..MaxNameLen |-> "x"], [i \in 1..(MaxNameLen + 1) |-> "x"],
      [i \in 1..(MaxNameLen \div 2) |-> "U+00E9"],
      [i \in 1..(MaxNameLen \div 2 + 1) |-> "U+00E9"] }
    \cup { <<"a", ch>> : ch \in InvalidNameChars }

InitOps ==
    /\ containers = <<>>
    /\ status = NoStatus
    /\ dirs = DeployedWorkspace(project_b).dirs
    /\ files = DeployedWorkspace(project_b).files
    /\ log = <<>>
    /\ call = [c \in CallIds |-> IdleCall]
    /\ unit = [c \in CallIds |-> NoUnit]
    /\ list = IdleList
    /\ client = IdleClient

\* the locations create_project works on (line 50, used at lines 52-87) and
\* the paths list_projects hands its collaborators (lines 163-178) for one
\* definition
DeriveLocations(project_file) ==
    /\ client.op = "none"
    /\ LET loc == get_project_file_locations(project_file)
       IN  client' =
             [op |-> "locations", project_file |-> project_file,
              locations |-> loc,
              clone_into |-> loc.repository_folder,
              up_file |-> loc.compose_file,
              list_containers_file |->
                  get_project_file_locations(project_file).compose_file,
              timestamp_dir |-> repository_dir_of(project_file)]
    /\ UNCHANGED <<containers, status, dirs, files, log, call, unit, list>>

\* one call of DockerComposeClient::up (lines 152-182)
ComposeUp(compose_file_path, outcome, stderr) ==
    /\ client.op = "none"
    /\ client' =
         [op |-> "up", path |-> compose_file_path, outcome |-> outcome,
          stderr |-> stderr,
          result |-> up(dirs, files, compose_file_path, outcome, stderr),
          processes |-> docker_processes(dirs, files, compose_file_path,
                                         <<"up", "-d">>)]
    /\ UNCHANGED <<containers, status, dirs, files, log, call, unit, list>>

\* one call of DockerComposeClient::down (lines 184-214)
ComposeDown(compose_file_path, outcome, stderr) ==
    /\ client.op = "none"
    /\ client' =
         [op |-> "down", path |-> compose_file_path, outcome |-> outcome,
          stderr |-> stderr,
          result |-> down(dirs, files, compose_file_path, outcome, stderr),
          processes |-> docker_processes(dirs, files, compose_file_path,
                                         <<"down">>)]
    /\ UNCHANGED <<containers, status, dirs, files, log, call, unit, list>>

\* one call of DockerComposeClient::list_containers (lines 216-262)
ComposeListContainers(compose_file_path, outcome, stdout, stderr) ==
    /\ client.op = "none"
    /\ client' =
         [op |-> "list_containers", path |-> compose_file_path,
          outcome |-> outcome, stderr |-> stderr, stdout |-> stdout,
          result |-> list_containers(dirs, files, compose_file_path, outcome,
                                     stdout, stderr),
          processes |-> docker_processes(dirs, files, compose_file_path,
                            <<"ps", "--all", "--format", "json">>)]
    /\ UNCHANGED <<containers, status, dirs, files, log, call, unit, list>>

\* git clone succeeds only into a path that does not exist or an empty
\* directory
CanCloneInto(working_dir) ==
    /\ Resolve(working_dir) \notin DOMAIN files
    /\ \A q \in dirs \cup DOMAIN files :
           Len(q) > Len(Resolve(working_dir))
               => SubSeq(q, 1, Len(Resolve(working_dir))) # Resolve(working_dir)

\* one call of GitClientImpl::clone_repository (lines 39-76)
GitClone(source, working_dir, outcome) ==
    /\ client.op = "none"
    /\ outcome = "ok" => CanCloneInto(working_dir)
    /\ client' =
         [op |-> "clone", source |-> source, path |-> working_dir,
          existed |-> Exists(dirs, files, working_dir), outcome |-> outcome,
          result |-> clone_repository(source, working_dir, outcome),
          processes |-> git_processes("clone", dirs, files, source, working_dir)]
    /\ dirs' = IF outcome = "ok"
               THEN checkout(dirs, files, working_dir, <<>>, FALSE).dirs
               ELSE dirs
    /\ UNCHANGED <<containers, status, files, log, call, unit, list>>

\* one call of GitClientImpl::pull_repository (lines 79-120); a process
\* cannot be started in a path that is no directory
GitPull(source, working_dir, outcome) ==
    /\ client.op = "none"
    /\ IF falls_back_to_clone(dirs, files, working_dir)
       THEN outcome = "ok" => CanCloneInto(working_dir)
       ELSE outcome # "spawn_error" => IsDir(dirs, working_dir)
    /\ client' =
         [op |-> "pull", source |-> source, path |-> working_dir,
          existed |-> Exists(dirs, files, working_dir), outcome |-> outcome,
          result |-> pull_repository(dirs, files, source, working_dir, outcome),
          processes |-> git_processes("pull", dirs, files, source, working_dir)]
    /\ dirs' = IF outcome = "ok" /\ falls_back_to_clone(dirs, files, working_dir)
               THEN checkout(dirs, files, working_dir, <<>>, FALSE).dirs
               ELSE dirs
    /\ UNCHANGED <<containers, status, files, log, call, unit, list>>

\* one call of GitClientImpl::get_last_commit_timestamp (lines 123-181)
GitLog(working_dir, outcome, stdout) ==
    /\ client.op = "none"
    /\ outcome # "spawn_error" => IsDir(dirs, working_dir)
    /\ client' =
         [op |-> "log", path |-> working_dir,
          existed |-> Exists(dirs, files, working_dir), outcome |-> outcome,
          stdout |-> stdout,
          result |-> get_last_commit_timestamp(working_dir, outcome, stdout),
          processes |-> git_processes("log", dirs, files, project_b.source,
                                      working_dir)]
    /\ UNCHANGED <<containers, status, dirs, files, log, call, unit, list>>

\* ProjectName::new on one string, then as_str, to_string and into_inner on
\* the name it returned (models/project.rs lines 78-106)
NewProjectName(name) ==
    /\ client.op = "none"
    /\ LET r == ProjectName_new(name)
       IN  client' = [op |-> "project_name", name |-> name, result |-> r,
                      as_str |-> IF r.ok THEN r.value ELSE <<>>,
                      to_string |-> IF r.ok THEN r.value ELSE <<>>,
                      into_inner |-> IF r.ok THEN r.value ELSE <<>>]
    /\ UNCHANGED <<containers, status, dirs, files, log, call, unit, list>>

NextOps ==
    \/ \E project_file \in LocationFileInputs : DeriveLocations(project_file)
    \/ \E name \in ProjectNameInputs : NewProjectName(name)
    \/ \E source \in GitSourceInputs, working_dir \in GitDirInputs,
          outcome \in ProcessOutcomes : GitClone(source, working_dir, outcome)
    \/ \E source \in GitSourceInputs, working_dir \in GitDirInputs,
          outcome \in ProcessOutcomes : GitPull(source, working_dir, outcome)
    \/ \E working_dir \in GitDirInputs, outcome \in ProcessOutcomes,
          stdout \in ClientTimestampOutputs :
            GitLog(working_dir, outcome, stdout)
    \/ \E compose_file_path \in ComposePathInputs, outcome \in ProcessOutcomes,
          stderr \in ClientStderrInputs :
            ComposeUp(compose_file_path, outcome, stderr)
    \/ \E compose_file_path \in ComposePathInputs, outcome \in ProcessOutcomes,
          stderr \in ClientStderrInputs :
            ComposeDown(compose_file_path, outcome, stderr)
    \/ \E compose_file_path \in ComposePathInputs, outcome \in ProcessOutcomes,
          stdout \in ClientPsOutputs, stderr \in ClientStderrInputs :
            ComposeListContainers(compose_file_path, outcome, stdout, stderr)

SpecOps == InitOps /\ [][NextOps]_vars

----------------------------------------------------------------------------------------------------------------------------------------------------
(* errors/mod.rs, handlers/error.rs, handlers/project.rs: errors as responses *)

\* GfcError: the variant an error of the core converts into (#[from])
GfcError_from(e) ==
    [variant |->
        IF e.kind \in {"CloneFailed", "PullFailed", "GetLastCommitTimestampFailed"}
        THEN "Git"
        ELSE IF e.kind \in {"UpFailed", "DownFailed", "ListContainersFailed",
                            "ComposeFileNotFound"}
        THEN "Compose"
        ELSE "Project",
     error |-> e]

\* handlers/error.rs map_error: the HTTP status of a GfcError
map_error(err) ==
    CASE err.variant = "Config" -> 500
      [] err.variant = "Git" -> 502
      [] err.variant = "Compose" -> 502
      [] err.variant = "Project" -> 422
      [] err.variant = "Internal" -> 500

\* handlers/project.rs: the handlers convert every error into a HandlerError,
\* whose response has the status 200 OK
HandlerError_into_response(err) == 200

-----------------------------------------------------------------------------
(* usecases/docker_compose.rs: DockerCompose::up and DockerCompose::down on  *)
(* the containers of the Docker daemon, reached through the ContainerClient  *)
(* of repositories/docker_client.rs.  The daemon is the environment: whether *)
(* a request succeeds is an input of the step, within what the state of the  *)
(* daemon allows.                                                            *)

MaxRuns == 2

\* str::split: the parts of s between the occurrences of sep
RECURSIVE SplitFrom(_, _, _, _)
SplitFrom(s, sep, i, cur) ==
    IF i > Len(s) THEN <<cur>>
    ELSE IF s[i] = sep THEN <<cur>> \o SplitFrom(s, sep, i + 1, <<>>)
    ELSE SplitFrom(s, sep, i + 1, Append(cur, s[i]))

split(s, sep) == SplitFrom(s, sep, 1, <<>>)

PortMapping(container_port, host_port, protocol) ==
    [container_port |-> container_port, host_port |-> host_port,
     protocol |-> protocol]

InvalidPort(port) == [kind |-> "InvalidPort", port |-> port]

tcp == <<"t", "c", "p">>

\* extract_port_mappings, the closure: "host:container/protocol"
extract_port_mapping(port) ==
    LET parts == split(port, "/")
        protocol == IF Len(parts) > 1 THEN parts[2] ELSE tcp
        port_parts == split(parts[1], ":")
    IN  IF Len(port_parts) = 1
        THEN Ok(PortMapping(port_parts[1], port_parts[1], protocol))
        ELSE IF Len(port_parts) = 2
        THEN Ok(PortMapping(port_parts[2], port_parts[1], protocol))
        ELSE Err(InvalidPort(port))

\* extract_port_mappings: collect stops at the first Err
extract_port_mappings(ports) ==
    LET bad == {i \in DOMAIN ports : ~extract_port_mapping(ports[i]).ok}
    IN  IF bad # {}
        THEN extract_port_mapping(ports[CHOOSE i \in bad : \A j \in bad : i <= j])
        ELSE Ok([i \in DOMAIN ports |-> extract_port_mapping(ports[i]).value])

\* prepare_ports: Option::map and transpose
prepare_ports(service) ==
    IF ~service.ports.some THEN Ok(None)
    ELSE LET r == extract_port_mappings(service.ports.value)
         IN  IF r.ok THEN Ok(Some(r.value)) ELSE r

\* get_working_dir: Path::parent of the compose file
get_working_dir(path) == Path_parent(path).value

prepare_labels(path, project_name, service_name) ==
    [project |-> project_name, service |-> service_name, config_files |-> path,
     working_dir |-> get_working_dir(path)]

\* format!("{}-{}", project_name, service_name), lines 37 and 56
container_name_NoProject(project_name, service_name) == service_name

container_name(project_name, service_name) ==
    project_name \o <<"-">> \o service_name

create_container_config_from(path, project_name, service_name, service) ==
    LET ports == prepare_ports(service)
    IN  IF ~ports.ok THEN ports
        ELSE Ok([command |-> service.command,
                 environment |-> service.environment,
                 image |-> IF service.image.some THEN service.image.value ELSE <<>>,
                 labels |-> Some(prepare_labels(path, project_name, service_name)),
                 name |-> service_name,
                 ports |-> ports.value])

\* the ? operator of lines 43, 45, 46, 58 and 59: an Err ends the call
returns_early_Never(r) == FALSE

returns_early(r) == ~r.ok

\* the daemon: containers by name, each created, running or exited
Names(cs) == {c.name : c \in cs}

SetState(cs, name, state) ==
    {IF c.name = name THEN Container(name, state) ELSE c : c \in cs}

StateOf(cs, name) == (CHOOSE c \in cs : c.name = name).state

Daemon(result, cs) == [result |-> result, containers |-> cs]

\* DockerClient::create_container: a name in use is a conflict
create_container(cs, config, outcome) ==
    IF config.name \in Names(cs) THEN Daemon(Err("conflict"), cs)
    ELSE IF outcome # "ok" THEN Daemon(Err("daemon error"), cs)
    ELSE Daemon(Ok(config.name), cs \cup {Container(config.name, "created")})

\* DockerClient::start_container: a container that runs already is left as it is
start_container(cs, name, outcome) ==
    IF name \notin Names(cs) THEN Daemon(Err("no such container"), cs)
    ELSE IF outcome # "ok" THEN Daemon(Err("daemon error"), cs)
    ELSE Daemon(Ok(Unit), SetState(cs, name, "running"))

\* DockerClient::stop_container: a container that does not run is left as it is
stop_container(cs, name, outcome) ==
    IF name \notin Names(cs) THEN Daemon(Err("no such container"), cs)
    ELSE IF outcome # "ok" THEN Daemon(Err("daemon error"), cs)
    ELSE Daemon(Ok(Unit),
                IF StateOf(cs, name) = "running" THEN SetState(cs, name, "exited")
                ELSE cs)

\* DockerClient::remove_container, without force: a running container stays
remove_container(cs, name, outcome) ==
    IF name \notin Names(cs) THEN Daemon(Err("no such container"), cs)
    ELSE IF StateOf(cs, name) = "running" THEN Daemon(Err("conflict"), cs)
    ELSE IF outcome # "ok" THEN Daemon(Err("daemon error"), cs)
    ELSE Daemon(Ok(Unit), {c \in cs : c.name # name})

\* the services of the compose files the calls are made on
Service(image, ports) ==
    [command |-> None, environment |-> None, image |-> image, ports |-> ports]

service_a == <<"a">>
service_b == <<"b">>

PlainService == Service(Some(<<"i">>), None)
MappedService == Service(Some(<<"i">>), Some(<<<<"8", ":", "9", "/", "u">>, <<"7">>>>))
BadPortService == Service(None, Some(<<<<"7">>, <<"1", ":", "2", ":", "3">>>>))

DockerComposeFile(services) == [services |-> services]

ComposeFileInputs ==
    { DockerComposeFile(<<>>),
      DockerComposeFile([n \in {service_a} |-> MappedService]),
      DockerComposeFile([n \in {service_a, service_b} |-> PlainService]),
      DockerComposeFile([n \in {service_a, service_b} |->
                            IF n = service_a THEN PlainService ELSE BadPortService]) }

ComposeProjectInputs == {<<"p">>, <<"q">>}

compose_path == <<"resources", "docker-compose.yaml">>

DaemonInputs ==
    SUBSET {Container(<<"p", "-", "a">>, "exited"), Container(<<"x">>, "running")}

DaemonOutcomes == {"ok", "error"}

\* DockerCompose::new, and no call made yet
DockerCompose_new(project_name, path, file) ==
    [op |-> "docker_compose", project_name |-> project_name, path |-> path,
     file |-> file, pc |-> "idle", call |-> "none", remaining |-> {},
     service_name |-> <<>>, before |-> {}, trace |-> <<>>, history |-> <<>>]

Traced(op, name, result) == [op |-> op, name |-> name, result |-> result]

\* the call returns: its result, the containers before and after it and the
\* requests it made are kept
Return(result, cs, trace) ==
    [client EXCEPT !.pc = "idle", !.remaining = {}, !.trace = <<>>,
                   !.history = Append(@, [call |-> client.call, result |-> result,
                                          before |-> client.before, after |-> cs,
                                          trace |-> trace])]

\* load_docker_compose at the head of up and of down
LoadDockerCompose(which, load) ==
    /\ client.pc = "idle"
    /\ Len(client.history) < MaxRuns
    /\ LET begun == [client EXCEPT !.call = which, !.before = containers,
                                   !.trace = <<>>]
       IN  client' =
             IF load = "ok"
             THEN [begun EXCEPT !.pc = which,
                                !.remaining = DOMAIN client.file.services]
             ELSE [begun EXCEPT !.history =
                       Append(@, [call |-> which, result |-> Err(load),
                                  before |-> containers, after |-> containers,
                                  trace |-> <<>>])]
    /\ UNCHANGED <<containers, status, dirs, files, log, call, unit, list>>

\* up, lines 36-45: the next service, its configuration and create_container
UpCreateContainer(service, outcome) ==
    /\ client.pc = "up"
    /\ service \in client.remaining
    /\ LET service_name == container_name(client.project_name, service)
           config == create_container_config_from(client.path, client.project_name,
                                                  service_name,
                                                  client.file.services[service])
           d == create_container(containers, config.value, outcome)
       IN  IF returns_early(config)
           THEN /\ client' = Return(config, containers, client.trace)
                /\ UNCHANGED containers
           ELSE LET trace == Append(client.trace,
                                    Traced("create_container", service_name,
                                           d.result))
                IN  /\ containers' = d.containers
                    /\ client' =
                         IF returns_early(d.result)
                         THEN Return(d.result, d.containers, trace)
                         ELSE [client EXCEPT !.pc = "up_start",
                                             !.remaining = @ \ {service},
                                             !.service_name = service_name,
                                             !.trace = trace]
    /\ UNCHANGED <<status, dirs, files, log, call, unit, list>>

\* up, line 46: start_container of the container just created
UpStartContainer(outcome) ==
    /\ client.pc = "up_start"
    /\ LET d == start_container(containers, client.service_name, outcome)
           trace == Append(client.trace,
                           Traced("start_container", client.service_name, d.result))
       IN  /\ containers' = d.containers
           /\ client' = IF returns_early(d.result)
                        THEN Return(d.result, d.containers, trace)
                        ELSE [client EXCEPT !.pc = "up", !.trace = trace]
    /\ UNCHANGED <<status, dirs, files, log, call, unit, list>>

\* down, lines 55-58: the next service and stop_container
DownStopContainer(service, outcome) ==
    /\ client.pc = "down"
    /\ service \in client.remaining
    /\ LET service_name == container_name(client.project_name, service)
           d == stop_container(containers, service_name, outcome)
           trace == Append(client.trace,
                           Traced("stop_container", service_name, d.result))
       IN  /\ containers' = d.containers
           /\ client' = IF returns_early(d.result)
                        THEN Return(d.result, d.containers, trace)
                        ELSE [client EXCEPT !.pc = "down_remove",
                                            !.remaining = @ \ {service},
                                            !.service_name = service_name,
                                            !.trace = trace]
    /\ UNCHANGED <<status, dirs, files, log, call, unit, list>>

\* down, line 59: remove_container of the container just stopped
DownRemoveContainer(outcome) ==
    /\ client.pc = "down_remove"
    /\ LET d == remove_container(containers, client.service_name, outcome)
           trace == Append(client.trace,
                           Traced("remove_container", client.service_name,
                                  d.result))
       IN  /\ containers' = d.containers
           /\ client' = IF returns_early(d.result)
                        THEN Return(d.result, d.containers, trace)
                        ELSE [client EXCEPT !.pc = "down", !.trace = trace]
    /\ UNCHANGED <<status, dirs, files, log, call, unit, list>>

\* lines 49 and 62: Ok(()) after the last service
DockerComposeReturn ==
    /\ client.pc \in {"up", "down"}
    /\ client.remaining = {}
    /\ client' = Return(Ok(Unit), containers, client.trace)
    /\ UNCHANGED <<containers, status, dirs, files, log, call, unit, list>>

\* the main process of a running container ends
ContainerExits(name) ==
    /\ name \in Names(containers)
    /\ StateOf(containers, name) = "running"
    /\ containers' = SetState(containers, name, "exited")
    /\ UNCHANGED <<status, dirs, files, log, call, unit, list, client>>

InitCompose ==
    /\ containers \in DaemonInputs
    /\ status = NoStatus
    /\ dirs = EmptyWorkspace.dirs
    /\ files = EmptyWorkspace.files
    /\ log = <<>>
    /\ call = [c \in CallIds |-> IdleCall]
    /\ unit = [c \in CallIds |-> NoUnit]
    /\ list = IdleList
    /\ \E project_name \in ComposeProjectInputs, file \in ComposeFileInputs :
          client = DockerCompose_new(project_name, compose_path, file)

NextCompose ==
    \/ \E which \in {"up", "down"}, load \in {"ok", "io error", "yaml error"} :
          LoadDockerCompose(which, load)
    \/ \E service \in {service_a, service_b}, outcome \in DaemonOutcomes :
          UpCreateContainer(service, outcome)
    \/ \E outcome \in DaemonOutcomes : UpStartContainer(outcome)
    \/ \E service \in {service_a, service_b}, outcome \in DaemonOutcomes :
          DownStopContainer(service, outcome)
    \/ \E outcome \in DaemonOutcomes : DownRemoveContainer(outcome)
    \/ DockerComposeReturn
    \/ \E name \in Names(containers) : ContainerExits(name)

SpecCompose == InitCompose /\ [][NextCompose]_vars

-----------------------------------------------------------------------------
(* usecases/container_watcher.rs: ContainerWatcher::run and parse_event.    *)
(* The event stream of the daemon and the receiver of the channel are the   *)
(* environment.                                                             *)

MaxStream == 3
ChannelCapacity == 1

EventMessage(actor, action) == [actor |-> actor, action |-> action]
EventActor(id, attributes) == [id |-> id, attributes |-> attributes]

ContainerEvent(id, name, action) ==
    [container_id |-> id, container_name |-> name, action |-> action]

\* the match of parse_event: the ContainerEventAction of an action string
ContainerEventAction(action) ==
    CASE action = "create" -> Some("Create")
      [] action = "start" -> Some("Start")
      [] action = "stop" -> Some("Stop")
      [] action = "restart" -> Some("Restart")
      [] action = "pause" -> Some("Pause")
      [] action = "unpause" -> Some("Unpause")
      [] action = "die" -> Some("Die")
      [] action = "destroy" -> Some("Destroy")
      [] action = "kill" -> Some("Kill")
      [] action = "oom" -> Some("Oom")
      [] action = "health_status: healthy" -> Some("HealthStatus")
      [] action = "health_status: unhealthy" -> Some("HealthStatus")
      [] OTHER -> None

\* a plausible slip: an event without the name attribute is forwarded with an
\* empty name, and one with another action as it is
parse_event_Lenient(event) ==
    IF ~event.actor.some \/ ~event.action.some THEN None
    ELSE IF ~event.actor.value.id.some THEN None
    ELSE Some(ContainerEvent(event.actor.value.id.value, "", event.action.value))

parse_event(event) ==
    IF ~event.actor.some THEN None
    ELSE IF ~event.actor.value.id.some THEN None
    ELSE IF ~event.actor.value.attributes.some THEN None
    ELSE IF "name" \notin DOMAIN event.actor.value.attributes.value THEN None
    ELSE IF ~event.action.some THEN None
    ELSE LET action == ContainerEventAction(event.action.value)
         IN  IF ~action.some THEN None
             ELSE Some(ContainerEvent(event.actor.value.id.value,
                                      event.actor.value.attributes.value["name"],
                                      action.value))

\* the items the stream of watch_events can yield
Named(name) == [k \in {"name", "image"} |-> IF k = "name" THEN name ELSE "i"]
Unnamed == [k \in {"image"} |-> "i"]

EventInputs ==
    { EventMessage(Some(EventActor(Some("1"), Some(Named("n")))), Some("start")),
      EventMessage(Some(EventActor(Some("2"), Some(Named("m")))),
                   Some("health_status: healthy")),
      EventMessage(None, Some("start")),
      EventMessage(Some(EventActor(None, Some(Named("n")))), Some("start")),
      EventMessage(Some(EventActor(Some("1"), None)), Some("start")),
      EventMessage(Some(EventActor(Some("1"), Some(Unnamed))), Some("start")),
      EventMessage(Some(EventActor(Some("1"), Some(Named("n")))), Some("exec_start")),
      EventMessage(Some(EventActor(Some("1"), Some(Named("n")))), None) }

StreamItemInputs == {Ok(event) : event \in EventInputs} \cup {Err("stream error")}

StreamInputs == UNION { [1..n -> StreamItemInputs] : n \in 0..MaxStream }

\* ContainerWatcher::new and the call of run on a stream: nothing taken yet;
\* history: attempts keeps the sends made, with how each ended
ContainerWatcher_new(items) ==
    [op |-> "watcher", items |-> items, taken |-> 0, pc |-> "waiting",
     pending |-> None, channel |-> <<>>, receiver_open |-> TRUE,
     attempts |-> <<>>]

\* lines 31-33: the error of a failed send is printed, the loop goes on
after_send(sent) == "waiting"

\* line 29: stream.next().await against the pattern Some(Ok(event)), then
\* parse_event
StreamNext ==
    /\ client.pc = "waiting"
    /\ client' =
         IF client.taken = Len(client.items)
         THEN [client EXCEPT !.pc = "stopped"]
         ELSE LET item == client.items[client.taken + 1]
              IN  IF ~item.ok
                  THEN [client EXCEPT !.pc = "stopped", !.taken = @ + 1]
                  ELSE LET container_event == parse_event(item.value)
                       IN  [client EXCEPT
                               !.taken = @ + 1,
                               !.pending = container_event,
                               !.pc = IF container_event.some THEN "sending"
                                      ELSE "waiting"]
    /\ UNCHANGED <<containers, status, dirs, files, log, call, unit, list>>

\* line 31: tx.send(container_event).await: an error when the receiver is
\* gone, and a wait while the channel is full
TxSend ==
    /\ client.pc = "sending"
    /\ client.receiver_open => Len(client.channel) < ChannelCapacity
    /\ client' =
         [client EXCEPT
             !.pc = after_send(client.receiver_open),
             !.pending = None,
             !.channel = IF client.receiver_open
                         THEN Append(@, client.pending.value) ELSE @,
             !.attempts = Append(@, [event |-> client.pending.value,
                                     ok |-> client.receiver_open])]
    /\ UNCHANGED <<containers, status, dirs, files, log, call, unit, list>>

\* the receiver takes the oldest event of the channel
Recv ==
    /\ client.receiver_open
    /\ client.channel # <<>>
    /\ client' = [client EXCEPT !.channel = Tail(@)]
    /\ UNCHANGED <<containers, status, dirs, files, log, call, unit, list>>

\* the receiver is dropped, and what the channel held with it
DropReceiver ==
    /\ client.receiver_open
    /\ client' = [client EXCEPT !.receiver_open = FALSE, !.channel = <<>>]
    /\ UNCHANGED <<containers, status, dirs, files, log, call, unit, list>>

InitWatcher ==
    /\ containers = <<>>
    /\ status = NoStatus
    /\ dirs = EmptyWorkspace.dirs
    /\ files = EmptyWorkspace.files
    /\ log = <<>>
    /\ call = [c \in CallIds |-> IdleCall]
    /\ unit = [c \in CallIds |-> NoUnit]
    /\ list = IdleList
    /\ \E items \in StreamInputs : client = ContainerWatcher_new(items)

NextWatcher ==
    \/ StreamNext
    \/ TxSend
    \/ Recv
    \/ DropReceiver

SpecWatcher == InitWatcher /\ [][NextWatcher]_vars

----
(* Observations the properties are stated with *)

ActiveCount(cs) == Cardinality({i \in DOMAIN cs : cs[i].state = "Running"})

InvalidArgument(project_file) ==
    \/ ~ProjectName_new(project_file.name).ok
    \/ Trim(project_file.source.url) = <<>>
    \/ Trim(project_file.source.branch) = <<>>

Called(c) == call[c].pc # "idle"
Returned(c) == call[c].pc = "returned"
ReturnedOk(c) == Returned(c) /\ call[c].result.ok
ReturnedErr(c) == Returned(c) /\ ~call[c].result.ok

\* the call has written its definition
PastWrite(c) == call[c].pc \in {"written", "spawned"} \/ ReturnedOk(c)

ManifestOf(c) == Resolve(call[c].locations.manifest_file)

DirsExist(c) ==
    /\ IsDir(dirs, call[c].locations.manifest_folder)
    /\ IsDir(dirs, call[c].locations.repository_folder)

HoldsDefinition(p, d) ==
    p \in DOMAIN files /\ serde_yaml_from_str(files[p]) = Ok(d)

\* no other call opened or wrote the manifest of c after c opened it
Undisturbed(c) ==
    \A i, j \in DOMAIN log :
        /\ log[i].call = c
        /\ i < j
        /\ log[j].path = log[i].path
        => log[j].call = c

\* the manifest files in the manifest folder of c
ManifestFiles(c) ==
    { p \in DOMAIN files :
        /\ SubSeq(p, 1, Len(p) - 1) = Resolve(call[c].locations.manifest_folder)
        /\ EndsWith(p[Len(p)], yml) \/ EndsWith(p[Len(p)], yaml) }

----------------------------------------------------------------------------
(* Properties *)

\* C1: the status derived from a list of containers is Unknown for no
\* container, Stopped when none is Running, Running{n, n} when all n are
\* Running, PartiallyRunning{active, total} otherwise; only the state Running
\* counts as active; the derivation never yields CreationInProgress or
\* DeploymentFailed.
C1_StatusDerivation ==
    status # NoStatus =>
        LET n == Len(containers)
            active == ActiveCount(containers)
        IN  /\ n = 0 => status = Unknown
            /\ n > 0 /\ active = 0 => status = Stopped
            /\ n > 0 /\ active = n => status = Running(n, n)
            /\ 0 < active /\ active < n => status = PartiallyRunning(active, n)
            /\ status.kind \notin {"CreationInProgress", "DeploymentFailed"}

\* a partially running project one of whose inactive containers is Restarting
C1_Witness ==
    /\ status = PartiallyRunning(1, MaxContainers)
    /\ \E i \in DOMAIN containers : containers[i].state = "Restarting"

\* C2: a create_project call whose argument fails validation returns
\* CreateProjectFailed before any I/O: no directory is created, no manifest
\* written, no unit scheduled.
C2_ValidationBeforeIO ==
    /\ [](\A c \in CallIds :
            Called(c) /\ InvalidArgument(call[c].project_file) =>
                /\ ReturnedErr(c)
                /\ call[c].result.error.kind = "CreateProjectFailed"
                /\ call[c].ops = <<>>
                /\ unit[c].pc = "none")
    /\ [][\A c \in CallIds :
            ~Called(c) /\ Called(c)' /\ InvalidArgument(call'[c].project_file)
                => UNCHANGED <<dirs, files, log, unit>>]_vars

\* a call with a valid name and URL and an empty branch has been refused
C2_Witness ==
    \E c \in CallIds :
        /\ ReturnedErr(c)
        /\ ProjectName_new(call[c].project_file.name).ok
        /\ call[c].project_file.source.url # <<>>
        /\ call[c].project_file.source.branch = <<>>
        /\ call[c].result.error.kind = "CreateProjectFailed"

\* C3: a create_project call that scheduled its unit returns Ok whatever the
\* unit does or has done, and what it returned is never changed afterwards.
C3_ReturnIndependentOfUnit ==
    /\ [](\A c \in CallIds :
            Returned(c) /\ unit[c].pc # "none" => call[c].result = Ok(Unit))
    /\ [][\A c \in CallIds : Returned(c) => call'[c] = call[c]]_vars

\* one call returned Ok and its unit failed both the clone and the up; another
\* returned Ok before its unit started the clone
C3_Witness ==
    \E c, d \in CallIds :
        /\ ReturnedOk(c)
        /\ unit[c].pc = "done"
        /\ unit[c].clone_result = "CloneFailed"
        /\ unit[c].up_result = "ComposeFileNotFound"
        /\ ReturnedOk(d)
        /\ unit[d].pc = "scheduled"

\* C4 as stated: at the moment create_project returns Ok for d, and at the
\* moment the unit starts its clone, both directories exist and the manifest
\* deserializes to d.  (Neither step touches the file system: what holds at
\* the step holds in the state it is taken from.)
C4_ManifestHoldsOwnDefinition ==
    [][\A c \in CallIds :
          (\/ call[c].pc = "spawned" /\ call'[c].pc = "returned"
           \/ unit[c].pc = "scheduled" /\ unit'[c].pc = "cloning")
          => /\ DirsExist(c)
             /\ HoldsDefinition(ManifestOf(c), call[c].project_file)]_vars

\* C4, amended: from its write on, so at its return and when its unit starts
\* the clone, a call's directories and manifest file exist, and the manifest
\* deserializes to its definition unless another call opened or wrote that
\* file after this call opened it.
C4_ManifestHoldsUndisturbedDefinition ==
    \A c \in CallIds :
        PastWrite(c) =>
            /\ DirsExist(c)
            /\ ManifestOf(c) \in DOMAIN files
            /\ Undisturbed(c) =>
                   HoldsDefinition(ManifestOf(c), call[c].project_file)

\* a call returned Ok, its unit is cloning, and the manifest another call had
\* written with another definition holds this call's definition
C4_Witness ==
    \E c, d \in CallIds :
        /\ ReturnedOk(c)
        /\ unit[c].pc = "cloning"
        /\ Undisturbed(c)
        /\ PastWrite(d)
        /\ ManifestOf(d) = ManifestOf(c)
        /\ call[d].project_file # call[c].project_file
        /\ HoldsDefinition(ManifestOf(c), call[c].project_file)

\* C5: in the unit the clone is called first, and compose-up is called only
\* after the clone has returned.
C5_CloneBeforeUp ==
    \A c \in CallIds :
        LET t == unit[c].trace
        IN  /\ t # <<>> => t[1] = "clone_call"
            /\ \A i \in DOMAIN t :
                  t[i] = "up_call" => \E j \in 1..(i - 1) : t[j] = "clone_ret"
            /\ unit[c].pc \in {"composing", "done"} =>
                  unit[c].clone_result # "none"

\* a unit ran to its end: clone called and returned, then up called and returned
C5_Witness ==
    \E c \in CallIds :
        unit[c].trace =
            <<"clone_call", "clone_ret", "up_call", "docker_up", "up_ret">>

\* C6: create_project is repeatable for one name: directories and a manifest
\* that exist already make no call fail, and a call made after another for the
\* same name had returned Ok returns Ok, leaving one manifest file that holds
\* the second definition.
C6_Repeatable ==
    \A c \in CallIds :
        Called(c) /\ ~InvalidArgument(call[c].project_file) =>
            /\ ReturnedErr(c) => call[c].result.error.reason = "io error"
            /\ \A b \in call[c].prior :
                  /\ ReturnedOk(b)
                  /\ ManifestOf(b) = ManifestOf(c)
                  /\ PastWrite(c)
                  /\ Undisturbed(c)
                  => /\ HoldsDefinition(ManifestOf(c), call[c].project_file)
                     /\ ManifestFiles(c) = {ManifestOf(c)}

\* a second call, made after the first had returned Ok with another definition
\* of the same name, returned Ok and the manifest holds the second definition
C6_Witness ==
    \E b, c \in CallIds :
        /\ b \in call[c].prior
        /\ ReturnedOk(b)
        /\ ReturnedOk(c)
        /\ call[b].project_file.name = call[c].project_file.name
        /\ call[b].project_file # call[c].project_file
        /\ HoldsDefinition(ManifestOf(c), call[c].project_file)
        /\ ManifestFiles(c) = {ManifestOf(c)}

\* the listing has ended with an error of the kind, and returned no Project
ListFailedWith(kind) ==
    /\ list.pc = "done"
    /\ ~list.result.ok
    /\ list.result.error.kind = kind

\* a manifest discovery found that cannot be read or is no ProjectFile
BadManifest(m) == ~m.readable \/ ~serde_yaml_from_str(m.content).ok

\* C7 as stated: when creating a directory or writing the manifest fails with
\* an I/O error, create_project returns CreateProjectFailed carrying the
\* project name and the reason, and no unit is scheduled.
C7_IOFailureCarriesProjectName ==
    \A c \in CallIds :
        ReturnedErr(c) /\ ~InvalidArgument(call[c].project_file) =>
            /\ call[c].result.error.kind = "CreateProjectFailed"
            /\ call[c].result.error.project_name = call[c].project_file.name
            /\ call[c].result.error.reason = "io error"
            /\ unit[c].pc = "none"

\* C8: when discovery finds a manifest it cannot read or that does not
\* deserialize to a ProjectFile, list_projects returns ListProjectsFailed and
\* no Project, without a collaborator call, whatever the other manifests are.
C8_DiscoveryAllOrNothing ==
    (\E i \in DOMAIN list.seen : BadManifest(list.seen[i])) =>
        /\ ListFailedWith("ListProjectsFailed")
        /\ list.projects = <<>>
        /\ list.trace = <<>>

\* a listing failed on a workspace that holds one manifest that deserializes
\* and one that does not
C8_Witness ==
    /\ ListFailedWith("ListProjectsFailed")
    /\ \E i, j \in DOMAIN list.seen :
          /\ ~BadManifest(list.seen[i])
          /\ list.seen[j].readable
          /\ BadManifest(list.seen[j])

\* C9: when the git client fails to give the last commit timestamp of a
\* discovered project, list_projects returns ProjectNotFound carrying that
\* project's name, and no Project.
C9_TimestampFailureAborts ==
    \A i \in DOMAIN list.trace :
        list.trace[i].op = "get_last_commit_timestamp" /\ ~list.trace[i].ok =>
            /\ ListFailedWith("ProjectNotFound")
            /\ list.result.error.project_name = list.trace[i].name
            /\ i = Len(list.trace)

\* the timestamp of the second project failed after the first project had
\* been assembled
C9_Witness ==
    /\ ListFailedWith("ProjectNotFound")
    /\ Len(list.projects) = 1
    /\ list.idx = 2
    /\ list.result.error.project_name = list.project_files[2].name

\* C10 as stated: when list_containers fails for a discovered project,
\* list_projects fails with the error kind ListProjectsFailed.
C10_ContainerFailureIsListProjectsFailed ==
    \A i \in DOMAIN list.trace :
        list.trace[i].op = "list_containers" /\ ~list.trace[i].ok =>
            ListFailedWith("ListProjectsFailed")

\* the listing has returned
ListDone == list.pc = "done"

\* the ProjectFile of the i-th manifest discovery found
SeenFile(i) == serde_yaml_from_str(list.seen[i].content).value

\* the enumeration of the manifests itself failed
GlobFailed ==
    /\ ListFailedWith("ListProjectsFailed")
    /\ list.result.error.reason = "glob error"

\* the manifests were enumerated, every one found was read and parsed, every
\* collaborator call succeeded
AllSucceeded ==
    /\ ~GlobFailed
    /\ \A i \in DOMAIN list.seen : ~BadManifest(list.seen[i])
    /\ \A i \in DOMAIN list.trace : list.trace[i].ok

\* the status the specification gives a list of containers
ExpectedStatus(cs) ==
    LET n == Len(cs)
        active == ActiveCount(cs)
    IN  IF n = 0 THEN Unknown
        ELSE IF active = 0 THEN Stopped
        ELSE IF active = n THEN Running(n, n)
        ELSE PartiallyRunning(active, n)

\* the i-th Project returned is the one of the i-th manifest found
ProjectMatches(i) ==
    LET m == SeenFile(i)
        p == list.result.value[i]
        ps == list.trace[2 * i - 1]
        ts == list.trace[2 * i]
    IN  /\ p.name = m.name
        /\ p.source = m.source
        /\ ps.op = "list_containers"
        /\ ps.path = Path_join(Path_join(repositories_root, m.name), m.source.path)
        /\ p.status = ExpectedStatus(ps.value)
        /\ ts.op = "get_last_commit_timestamp"
        /\ ts.path = Path_join(repositories_root, m.name)
        /\ p.last_updated_at = ts.value

Below(base, s) == base \o Components(s)

IsAbsolute(s) == s # <<>> /\ s[1] = "/"

\* list_projects works on the paths create_project works on
NoDrift ==
    /\ client.list_containers_file = client.up_file
    /\ client.timestamp_dir = client.clone_into

\* C12 as stated: the four locations of a ProjectFile are manifests_root/<name>,
\* manifests_root/<name>/project.yaml, repositories_root/<name> and
\* repositories_root/<name>/<source.path>, and list_projects queries the compose
\* file create_project brings up and reads the timestamp of the directory it
\* clones into.
C12_LocationsBelowRoots ==
    client.op = "locations" =>
        LET pf == client.project_file
            loc == client.locations
        IN  /\ loc.manifest_folder = Below(manifests_root, pf.name)
            /\ loc.manifest_file =
                   Below(Below(manifests_root, pf.name), project_yaml)
            /\ loc.repository_folder = Below(repositories_root, pf.name)
            /\ loc.compose_file =
                   Below(Below(repositories_root, pf.name), pf.source.path)
            /\ NoDrift

\* C12, amended: the same for a relative source.path; an absolute source.path
\* is itself the compose file; in both cases list_projects and create_project
\* work on the same compose file and the same repository directory.
C12_LocationsJoined ==
    client.op = "locations" =>
        LET pf == client.project_file
            loc == client.locations
        IN  /\ loc.manifest_folder = Below(manifests_root, pf.name)
            /\ loc.manifest_file =
                   Below(Below(manifests_root, pf.name), project_yaml)
            /\ loc.repository_folder = Below(repositories_root, pf.name)
            /\ ~IsAbsolute(pf.source.path) =>
                   loc.compose_file =
                       Below(Below(repositories_root, pf.name), pf.source.path)
            /\ IsAbsolute(pf.source.path) =>
                   loc.compose_file = Components(pf.source.path)
            /\ NoDrift

\* the locations of a definition with a nested relative compose path
C12_Witness ==
    /\ client.op = "locations"
    /\ client.project_file.name = <<"a">>
    /\ client.project_file.source.path = <<"d", "/", "c">>
    /\ client.up_file = <<<<"w">>, <<"r">>, <<"a">>, <<"d">>, <<"c">>>>
    /\ client.list_containers_file = client.up_file
    /\ client.timestamp_dir = <<<<"w">>, <<"r">>, <<"a">>>>

----------------------------------------------------------------------------
(* Observations of one direct call of the compose client *)

ComposeOps == {"up", "down", "list_containers"}
ComposeCall == client.op \in ComposeOps

\* the path of the call names a regular file of the workspace
RegularFile(p) == Resolve(p) \in DOMAIN files
Missing(p) == Resolve(p) \notin dirs /\ Resolve(p) \notin DOMAIN files

FailedWith(kind) == ~client.result.ok /\ client.result.error.kind = kind

----------------------------------------------------------------------------
\* C13: for up, down and list_containers, when the compose-file path does
\* not exist or is not a regular file (a directory, for example), the
\* operation returns ComposeFileNotFound carrying that path and no docker
\* process is started in that call.
C13_NoComposeFileNoProcess ==
    ComposeCall /\ (Missing(client.path) \/ ~RegularFile(client.path))
        => /\ FailedWith("ComposeFileNotFound")
           /\ client.result.error.path = client.path
           /\ client.processes = <<>>

\* down is called with the repository directory, which exists
C13_Witness ==
    /\ client.op = "down"
    /\ client.path = get_project_file_locations(project_b).repository_folder
    /\ client.path \in dirs
    /\ client.outcome = "ok"
    /\ FailedWith("ComposeFileNotFound")

----------------------------------------------------------------------------
(* Observations of the lines list_containers reads *)

SevenStates ==
    {"created", "dead", "exited", "paused", "removing", "restarting", "running"}

HasString(l, f) ==
    IF f \in DOMAIN l.fields THEN l.fields[f].is_str ELSE FALSE

\* a non-blank line list_containers must refuse
BadLine(l) ==
    IF l.blank THEN FALSE
    ELSE IF ~l.json THEN TRUE
    ELSE IF ~HasString(l, "Name") \/ ~HasString(l, "State") THEN TRUE
    ELSE l.fields["State"].s \notin SevenStates

\* docker ran and printed a line that must be refused
ReadBadLine ==
    /\ client.op = "list_containers"
    /\ RegularFile(client.path)
    /\ client.outcome = "ok"
    /\ \E i \in DOMAIN client.stdout : BadLine(client.stdout[i])

FirstBadLine ==
    client.stdout[CHOOSE i \in DOMAIN client.stdout :
                     /\ BadLine(client.stdout[i])
                     /\ \A j \in 1..(i - 1) : ~BadLine(client.stdout[j])]

\* the state values the output holds
StateValues ==
    { client.stdout[i].fields["State"].s :
        i \in { j \in DOMAIN client.stdout :
                  IF client.stdout[j].json
                  THEN HasString(client.stdout[j], "State") ELSE FALSE } }

\* the whole call fails with ListContainersFailed carrying the path
WholeCallFails ==
    /\ FailedWith("ListContainersFailed")
    /\ client.result.error.path = client.path

----------------------------------------------------------------------------
\* C14 as stated: when any non-blank output line is not valid JSON, lacks a
\* string field Name, lacks a string field State, or has a State that is not
\* one of the seven lowercase tokens, the whole call fails with
\* ListContainersFailed carrying the path and a reason naming the field or
\* the value; no partial list is returned, the bad line is never skipped.
C14_StrictReasonNamesFieldOrValue ==
    ReadBadLine
        => /\ WholeCallFails
           /\ client.result.error.reason.detail
                \in {<<"Name">>, <<"State">>} \cup { <<v>> : v \in StateValues }

\* C14 amended: the whole call fails with ListContainersFailed carrying the
\* path, whatever the other lines hold; the reason names the field when the
\* first bad line lacks a string Name or State and the value when its State
\* is not one of the seven tokens; when that line is not valid JSON the
\* reason is the parser's message, which names neither.
C14_StrictListContainers ==
    ReadBadLine
        => /\ WholeCallFails
           /\ LET l == FirstBadLine
                   reason == client.result.error.reason
               IN  IF ~l.json
                   THEN /\ reason.message = "Failed to parse Docker compose output"
                        /\ reason.detail = serde_json_error_text
                   ELSE IF ~HasString(l, "Name") THEN reason.detail = <<"Name">>
                   ELSE IF ~HasString(l, "State") THEN reason.detail = <<"State">>
                   ELSE reason.detail = <<l.fields["State"].s>>

\* a well-formed line is followed by one whose state is capitalised
C14_Witness ==
    /\ ReadBadLine
    /\ client.stdout = <<PsLine("s", "running"), PsLine("s", "Running")>>
    /\ WholeCallFails
    /\ client.result.error.reason.detail = <<"Running">>

----------------------------------------------------------------------------
\* the failure variant that belongs to a compose operation
OwnVariant(op) ==
    CASE op = "up" -> "UpFailed"
      [] op = "down" -> "DownFailed"
      [] op = "list_containers" -> "ListContainersFailed"

\* C15: when the compose file exists and the compose tool exits with a
\* non-zero status, up returns UpFailed, down returns DownFailed and
\* list_containers returns ListContainersFailed, each carrying the compose
\* file path and a reason that contains the text of the tool's standard
\* error; none returns another operation's variant, none returns Ok.
C15_NonZeroExitIsOwnFailure ==
    ComposeCall /\ RegularFile(client.path) /\ client.outcome = "exit_nonzero"
        => /\ ~client.result.ok
           /\ client.result.error.kind = OwnVariant(client.op)
           /\ client.result.error.path = client.path
           /\ client.result.error.reason.detail = from_utf8_lossy(client.stderr)
           /\ client.processes # <<>>

\* `docker compose ps` exits non-zero after writing to its standard error
C15_Witness ==
    /\ client.op = "list_containers"
    /\ RegularFile(client.path)
    /\ client.outcome = "exit_nonzero"
    /\ client.stderr = <<"e">>
    /\ client.stdout # <<>>
    /\ FailedWith("ListContainersFailed")
    /\ client.result.error.reason.detail = <<"e">>

----------------------------------------------------------------------------
Count(seq, x) == Cardinality({i \in DOMAIN seq : seq[i] = x})

\* the collaborator calls of one kind the listing has made, in order
CallsOf(op) == SelectSeq(list.trace, LAMBDA e : e.op = op)

\* the calls of one kind went to the discovered manifests in order, one each
OnePerManifest(op) ==
    LET calls == CallsOf(op)
    IN  /\ Len(calls) <= Len(list.project_files)
        /\ \A i \in DOMAIN calls : calls[i].name = list.project_files[i].name

\* C16: nothing is retried: one create_project call starts clone_repository
\* at most once and up at most once, and one list_projects call starts
\* list_containers and get_last_commit_timestamp at most once for each
\* manifest it discovered.
C16_NoRetries ==
    /\ \A c \in CallIds :
            /\ Count(unit[c].trace, "clone_call") <= 1
            /\ Count(unit[c].trace, "up_call") <= 1
            /\ Count(unit[c].trace, "docker_up") <= 1
    /\ OnePerManifest("list_containers")
    /\ OnePerManifest("get_last_commit_timestamp")

\* the clone of a created project has failed and up has returned, and a
\* listing of two manifests has ended with an error from a collaborator
C16_Witness ==
    /\ unit[1].pc = "done"
    /\ unit[1].clone_result = "CloneFailed"
    /\ Count(unit[1].trace, "clone_call") = 1
    /\ Count(unit[1].trace, "up_call") = 1
    /\ list.pc = "done"
    /\ Len(list.project_files) = 2
    /\ ~list.result.ok
    /\ Len(CallsOf("list_containers")) = 2
    /\ Len(CallsOf("get_last_commit_timestamp")) = 1

----------------------------------------------------------------------------
(* Observations of two calls that overlap *)

\* neither call had returned when the other was called
Concurrent(c, d) ==
    /\ Called(c) /\ Called(d)
    /\ c \notin call[d].prior
    /\ d \notin call[c].prior

\* two calls for one name with different valid definitions that overlapped
\* and have both returned
RacedPair(c, d) ==
    /\ c # d
    /\ Returned(c) /\ Returned(d)
    /\ Concurrent(c, d)
    /\ ~InvalidArgument(call[c].project_file)
    /\ ~InvalidArgument(call[d].project_file)
    /\ call[c].project_file.name = call[d].project_file.name
    /\ call[c].project_file # call[d].project_file

\* a call is refused only by an I/O fault of its own
NotRejected(c) ==
    IF call[c].result.ok THEN TRUE
    ELSE call[c].result.error.reason = "io error"

WritesTo(p) == { i \in DOMAIN log : log[i].path = p /\ log[i].op = "write" }

LastWrite(p) == CHOOSE i \in WritesTo(p) : \A j \in WritesTo(p) : j <= i

\* from the open that precedes the last write of p on, only the call of that
\* write touched p
LastWriterAlone(p) ==
    LET w == LastWrite(p)
        opens == { i \in 1..w : /\ log[i].path = p
                                /\ log[i].op = "open"
                                /\ log[i].call = log[w].call }
        o == CHOOSE i \in opens : \A j \in opens : j <= i
    IN  \A j \in o..Len(log) : log[j].path = p => log[j].call = log[w].call

----------------------------------------------------------------------------
\* C17 as stated: two create_project calls for the same name that run
\* concurrently with different valid definitions both return Ok, and once
\* both have returned the manifest holds the definition of the call whose
\* write happened last.
C17_LastWriterWins ==
    \A c, d \in CallIds :
        RacedPair(c, d) =>
            /\ NotRejected(c) /\ NotRejected(d)
            /\ ReturnedOk(c) /\ ReturnedOk(d) =>
                   HoldsDefinition(ManifestOf(c),
                       call[log[LastWrite(ManifestOf(c))].call].project_file)

\* C17 amended: neither call is refused because of the other, and once both
\* have returned Ok the manifest holds the definition of the call whose
\* write happened last when no other call opened or wrote the file after
\* that call opened it; when the open and write steps of the two calls
\* interleave the manifest can be left with neither definition.
C17_LastUninterruptedWriterWins ==
    \A c, d \in CallIds :
        RacedPair(c, d) =>
            /\ NotRejected(c) /\ NotRejected(d)
            /\ ReturnedOk(c) /\ ReturnedOk(d)
                 /\ LastWriterAlone(ManifestOf(c)) =>
                   HoldsDefinition(ManifestOf(c),
                       call[log[LastWrite(ManifestOf(c))].call].project_file)

\* two overlapping calls returned Ok; the second opened the manifest after
\* the first had written it, and the manifest holds the second definition
C17_Witness ==
    \E c, d \in CallIds :
        /\ RacedPair(c, d)
        /\ ReturnedOk(c) /\ ReturnedOk(d)
        /\ LastWriterAlone(ManifestOf(c))
        /\ log[LastWrite(ManifestOf(c))].call = d
        /\ \E i \in DOMAIN log : log[i].call = c /\ log[i].op = "write"
        /\ HoldsDefinition(ManifestOf(c), call[d].project_file)
        /\ ~HoldsDefinition(ManifestOf(c), call[c].project_file)

----------------------------------------------------------------------------
(* Observations of one direct call of the git client *)

GitCall == client.op \in {"clone", "pull", "log"}

\* the git subcommand the call ran
Subcommand == client.processes[1].args[1]

RanClone ==
    /\ Len(client.processes) = 1
    /\ client.processes[1].program = "git"
    /\ client.processes[1].args =
           <<"clone", "--branch", client.source.branch, client.source.url,
             client.path>>

RanPull ==
    /\ Len(client.processes) = 1
    /\ client.processes[1].program = "git"
    /\ Len(client.processes[1].args) = 1
    /\ client.processes[1].args[1] = "pull"
    /\ client.processes[1].working_dir = Some(client.path)

----------------------------------------------------------------------------
\* C18: pull on a destination that does not exist falls back to clone: it
\* runs git clone of the source into that destination instead of git pull,
\* and its result, a CloneFailed error included, is the result of clone;
\* when the destination exists it runs git pull and never clone.
C18_PullFallsBackToClone ==
    client.op = "pull" =>
        IF ~client.existed
        THEN /\ RanClone
             /\ client.result =
                    clone_repository(client.source, client.path, client.outcome)
             /\ client.outcome # "ok" => FailedWith("CloneFailed")
        ELSE /\ RanPull
             /\ client.outcome # "ok" => FailedWith("PullFailed")
             /\ client.outcome = "ok" => client.result.ok

\* the clone that pull fell back to has exited non-zero
C18_Witness ==
    /\ client.op = "pull"
    /\ ~client.existed
    /\ client.outcome = "exit_nonzero"
    /\ RanClone
    /\ FailedWith("CloneFailed")

----------------------------------------------------------------------------
\* the text git printed, trimmed, is an optional sign and digits
PrintedBody ==
    LET t == Trim(client.stdout)
    IN  IF t # <<>> /\ t[1] \in {"+", "-"} THEN Tail(t) ELSE t

PrintedInteger ==
    /\ PrintedBody # <<>>
    /\ \A i \in DOMAIN PrintedBody : PrintedBody[i] \in {Digits[d] : d \in 1..10}

\* C19: last_commit_timestamp never returns a default: when the output of
\* git log is empty, not a number, or not a valid number of epoch seconds
\* (here: of more than 13 digits), the call fails with
\* GetLastCommitTimestampFailed carrying the directory path; it returns Ok
\* only with the timestamp equal to the integer git printed.
C19_NoDefaultTimestamp ==
    client.op = "log" =>
        /\ ~client.result.ok =>
               /\ client.result.error.kind = "GetLastCommitTimestampFailed"
               /\ client.result.error.path = client.path
        /\ client.outcome = "ok" /\ ~PrintedInteger => ~client.result.ok
        /\ client.outcome = "ok" /\ PrintedInteger
             /\ Len(StripZeros(PrintedBody)) > 13 => ~client.result.ok
        /\ client.result.ok =>
               /\ client.outcome = "ok"
               /\ PrintedInteger
               /\ client.result.value.magnitude = StripZeros(PrintedBody)
               /\ client.result.value.negative =
                      (Trim(client.stdout)[1] = "-"
                          /\ StripZeros(PrintedBody) # <<>>)

\* git log exited with status zero and printed an empty line
C19_Witness ==
    /\ client.op = "log"
    /\ client.outcome = "ok"
    /\ client.stdout = <<"\n">>
    /\ FailedWith("GetLastCommitTimestampFailed")
    /\ client.result.error.path = client.path

----------------------------------------------------------------------------
\* C20: git failures are classified by operation: a git clone that cannot
\* be run or exits non-zero gives CloneFailed carrying the url, a git pull
\* that cannot be run or exits non-zero gives PullFailed carrying the path,
\* a git log that cannot be run, exits non-zero or prints unparsable output
\* gives GetLastCommitTimestampFailed carrying the path; no git operation
\* returns Ok after a non-zero exit.
C20_GitFailureByOperation ==
    GitCall =>
        /\ client.outcome # "ok" => ~client.result.ok
        /\ ~client.result.ok =>
               CASE Subcommand = "clone" ->
                        /\ client.result.error.kind = "CloneFailed"
                        /\ client.result.error.url = client.source.url
                 [] Subcommand = "pull" ->
                        /\ client.result.error.kind = "PullFailed"
                        /\ client.result.error.path = client.path
                 [] Subcommand = "log" ->
                        /\ client.result.error.kind = "GetLastCommitTimestampFailed"
                        /\ client.result.error.path = client.path
        /\ client.op = "log" /\ client.outcome = "ok" /\ ~PrintedInteger
               => ~client.result.ok

\* git pull could not be started where the destination is a regular file
C20_Witness ==
    /\ client.op = "pull"
    /\ client.existed
    /\ Resolve(client.path) \in DOMAIN files
    /\ client.outcome = "spawn_error"
    /\ Subcommand = "pull"
    /\ FailedWith("PullFailed")
    /\ client.result.error.path = client.path

----------------------------------------------------------------------------
\* C21: ProjectName::new accepts a string exactly when it is non-empty, has
\* at most 100 characters and contains none of / \ : * ? " < > | ; every
\* other string is rejected, and an accepted name is stored unchanged
\* (as_str, Display and into_inner return the input).
C21_ProjectNameAccepted ==
    client.op = "project_name" =>
        /\ client.result.ok <=>
               /\ client.name # <<>>
               /\ Len(client.name) <= 100
               /\ \A i \in DOMAIN client.name :
                      client.name[i] \notin
                          {"/", "\\", ":", "*", "?", "\"", "<", ">", "|"}
        /\ client.result.ok =>
               /\ client.as_str = client.name
               /\ client.to_string = client.name
               /\ client.into_inner = client.name

----------------------------------------------------------------------------
\* the status classes of the transport layer
ClientErrorStatus(st) == 400 <= st /\ st < 500
ServerErrorStatus(st) == 500 <= st /\ st < 600

\* C22: every error create_project or list_projects can return is mapped to
\* an HTTP status of the right class: a validation error caused by the
\* client gives 4xx, a failure of an external tool or of the environment
\* (git, compose, I/O on directories and manifests) gives 5xx.
C22_StatusClassOfErrors ==
    /\ \A c \in CallIds :
          ReturnedErr(c) =>
              LET st == map_error(GfcError_from(call[c].result.error))
              IN  IF InvalidArgument(call[c].project_file)
                  THEN ClientErrorStatus(st)
                  ELSE ServerErrorStatus(st)
    /\ list.pc = "done" /\ ~list.result.ok =>
          ServerErrorStatus(map_error(GfcError_from(list.result.error)))

-----------------------------------------------------------------------------
(* Observations of the calls of DockerCompose *)

Services == DOMAIN client.file.services

\* the container of a service, named <project>-<service>
ServiceContainer(service) == client.project_name \o <<"-">> \o service

ProjectContainers == {ServiceContainer(service) : service \in Services}

\* the call made the request for the container once, and it succeeded
RequestedOnce(run, op, name) ==
    /\ Cardinality({k \in DOMAIN run.trace :
                       run.trace[k].op = op /\ run.trace[k].name = name}) = 1
    /\ \E k \in DOMAIN run.trace :
          /\ run.trace[k].op = op
          /\ run.trace[k].name = name
          /\ run.trace[k].result.ok

Succeeded(run, which) == run.call = which /\ run.result.ok

\* C23: an up that returns Ok has created and started exactly one container
\* per service of the compose file, named <project>-<service>, next to the
\* containers there were; a down that returns Ok right after it has stopped
\* and removed each of them, and the containers are those there were before
\* the up.
C23_UpThenDownRestoresContainers ==
    \A i \in DOMAIN client.history :
        LET run == client.history[i]
        IN  /\ Succeeded(run, "up") =>
                /\ Names(run.after) \ Names(run.before) = ProjectContainers
                /\ Names(run.before) \subseteq Names(run.after)
                /\ Cardinality(ProjectContainers) = Cardinality(Services)
                /\ Len(run.trace) = 2 * Cardinality(Services)
                /\ \A name \in ProjectContainers :
                      /\ RequestedOnce(run, "create_container", name)
                      /\ RequestedOnce(run, "start_container", name)
            /\ (i > 1 /\ Succeeded(run, "down")
                      /\ Succeeded(client.history[i - 1], "up")) =>
                /\ \A name \in ProjectContainers :
                      /\ RequestedOnce(run, "stop_container", name)
                      /\ RequestedOnce(run, "remove_container", name)
                /\ Names(run.after) = Names(client.history[i - 1].before)
                /\ Names(run.after) \cap ProjectContainers = {}

C23_Witness ==
    /\ Len(client.history) = 2
    /\ Succeeded(client.history[1], "up")
    /\ Succeeded(client.history[2], "down")
    /\ Cardinality(Services) = 2
    /\ client.history[1].before # {}
    /\ Cardinality(client.history[1].after) = Cardinality(client.history[1].before) + 2
    /\ client.history[2].after = client.history[1].before

\* the requests of an up: create_container then start_container of the same
\* container, service after service, no container twice, and nothing after a
\* request that failed
OneServiceAtATime(trace) ==
    \A k \in DOMAIN trace :
        /\ IF k % 2 = 1
           THEN /\ trace[k].op = "create_container"
                /\ \A j \in 1..(k - 1) :
                      j % 2 = 1 => trace[j].name # trace[k].name
           ELSE /\ trace[k].op = "start_container"
                /\ trace[k].name = trace[k - 1].name
        /\ k < Len(trace) => trace[k].result.ok

\* a request of the call failed
RequestFailed(run) == run.trace # <<>> /\ ~run.trace[Len(run.trace)].result.ok

\* the containers the call created, and those it started, are there after it
NoRollback(run) ==
    \A k \in DOMAIN run.trace :
        run.trace[k].result.ok =>
            /\ run.trace[k].name \in Names(run.after)
            /\ run.trace[k].op = "start_container" =>
                  StateOf(run.after, run.trace[k].name) \in {"running", "exited"}

\* C29: up handles the services one at a time, create_container then
\* start_container of one service before the next; the first request that
\* fails ends the call with that error, the remaining services are not
\* handled, and the containers created and started before stay as they are.
C29_UpStopsAtFirstFailureWithoutRollback ==
    /\ client.call = "up" /\ client.pc # "idle" =>
          /\ OneServiceAtATime(client.trace)
          /\ \A k \in DOMAIN client.trace : client.trace[k].result.ok
    /\ \A i \in DOMAIN client.history :
          LET run == client.history[i]
          IN  run.call = "up" =>
                /\ OneServiceAtATime(run.trace)
                /\ NoRollback(run)
                /\ RequestFailed(run) =>
                      /\ run.result = run.trace[Len(run.trace)].result
                      /\ Len(run.trace) <= 2 * Cardinality(Services)
                /\ run.result.ok => Len(run.trace) = 2 * Cardinality(Services)

C29_Witness ==
    \E i \in DOMAIN client.history :
        LET run == client.history[i]
        IN  /\ run.call = "up"
            /\ RequestFailed(run)
            /\ Len(run.trace) \in {3, 4}
            /\ Cardinality(Services) = 2
            /\ run.trace[1].name \in Names(run.after) \ Names(run.before)
            /\ StateOf(run.after, run.trace[1].name) = "running"

-----------------------------------------------------------------------------
\* C24 as stated: a list_projects call made after create_project has returned
\* Ok fails as a whole as long as no regular file lies at the compose-file
\* path of the new project: it returns neither a listing with the new project
\* nor the other projects without it.
C24_ListFailsUntilComposeFile ==
    \A c \in list.created :
        ListDone /\ ~RegularFile(call[c].locations.compose_file)
            => ~list.result.ok

-----------------------------------------------------------------------------
\* the unit has called up, with the path it was called with
UpAttempted(c) == unit[c].pc \in {"composing", "done"}

\* C25: in the detached unit, once clone_repository has returned, with Ok or
\* with an error, up is called on the compose file of the call: a failed
\* clone does not end the unit.
C25_UpAfterAnyClone ==
    \A c \in CallIds :
        (unit[c].clone_result # "none")
            ~> (UpAttempted(c) /\ unit[c].up_path = call[c].locations.compose_file)

C25_Witness ==
    /\ unit[1].clone_result = "CloneFailed"
    /\ UpAttempted(1)
    /\ unit[1].up_path = call[1].locations.compose_file
    /\ unit[1].trace[Len(unit[1].trace)] = "up_ret"

-----------------------------------------------------------------------------
\* the collaborator calls of the listing go project by project in the order
\* of discovery, list_containers then get_last_commit_timestamp
ProjectByProject ==
    \A k \in DOMAIN list.trace :
        /\ (k + 1) \div 2 \in DOMAIN list.project_files
        /\ list.trace[k].name = list.project_files[(k + 1) \div 2].name
        /\ list.trace[k].op = IF k % 2 = 1 THEN "list_containers"
                              ELSE "get_last_commit_timestamp"

\* no call follows a call that failed
NothingAfterFailure ==
    \A k \in DOMAIN list.trace : k < Len(list.trace) => list.trace[k].ok

\* every manifest found was read and parsed
AllParsed ==
    /\ Len(list.project_files) = Len(list.seen)
    /\ \A i \in DOMAIN list.seen :
          /\ ~BadManifest(list.seen[i])
          /\ SeenFile(i) = list.project_files[i]

\* C26: list_projects is sequential and short-circuits: every manifest is
\* read and parsed before the first collaborator call; the projects are
\* taken one at a time in discovery order, list_containers before the
\* timestamp query; after the first call that fails no further call is made,
\* and the listing fails.
C26_SequentialShortCircuit ==
    /\ list.trace # <<>> => AllParsed
    /\ ProjectByProject
    /\ NothingAfterFailure
    /\ (list.trace # <<>> /\ ~list.trace[Len(list.trace)].ok)
          => ListDone /\ ~list.result.ok

C26_Witness ==
    /\ ListDone
    /\ Len(list.project_files) = 2
    /\ Len(list.trace) = 3
    /\ ~list.trace[3].ok
    /\ list.trace[1].name # list.trace[3].name

-----------------------------------------------------------------------------
\* two units work on one repository directory and one compose file
SameTarget(c, d) ==
    /\ c # d
    /\ unit[c].pc # "none" /\ unit[d].pc # "none"
    /\ Resolve(call[c].locations.repository_folder)
         = Resolve(call[d].locations.repository_folder)
    /\ Resolve(call[c].locations.compose_file)
         = Resolve(call[d].locations.compose_file)

\* C27: no unit waits for another: whatever the other units are doing, also
\* on the same repository directory and compose file, a scheduled unit can
\* start its clone and a unit whose clone has returned can start its up, so
\* that two clones, or a clone and an up, of one project run at the same
\* time.
C27_NoMutualExclusion ==
    \A c \in CallIds :
        /\ unit[c].pc = "scheduled" => ENABLED CloneCall(c)
        /\ unit[c].pc = "cloned" => ENABLED UpCall(c)

\* the second call was made after the first had returned Ok, for the same
\* name; the first unit is still in its clone while the second one runs its
\* clone, too
C27_Witness ==
    \E c, d \in CallIds :
        /\ SameTarget(c, d)
        /\ c \in call[d].prior
        /\ ReturnedOk(c) /\ ReturnedOk(d)
        /\ unit[c].pc = "cloning"
        /\ unit[d].pc = "cloning"

-----------------------------------------------------------------------------
\* the manifests under manifests_root, as discovery enumerates them
ManifestsNow == find_all_file_paths_in(dirs, files, manifests_root, TRUE).value

\* C28: list_projects is read-only: a step of the listing changes no file and
\* no directory, starts and advances no unit and no create_project call, and
\* the only collaborator operations it invokes are list_containers and
\* get_last_commit_timestamp; so the manifests after the call are those
\* before it.
C28_ListIsReadOnly ==
    /\ [][list' # list =>
            /\ dirs' = dirs
            /\ files' = files
            /\ log' = log
            /\ unit' = unit
            /\ call' = call]_vars
    /\ [](\A k \in DOMAIN list.trace :
            list.trace[k].op \in {"list_containers", "get_last_commit_timestamp"})

\* a listing of a workspace nobody else touched has returned its projects,
\* and the manifests are the ones it found
C28_Witness ==
    /\ ListDone
    /\ list.result.ok
    /\ Len(list.result.value) >= 1
    /\ Len(list.trace) >= 2
    /\ \A c \in CallIds : ~Called(c)
    /\ ManifestsNow = [i \in DOMAIN list.seen |-> list.seen[i].path]
    /\ \E w \in InitialWorkspaces : dirs = w.dirs /\ files = w.files

-----------------------------------------------------------------------------
(* Observations of the watcher *)

\* the action strings the watcher forwards
KnownActions ==
    {"create", "start", "stop", "restart", "pause", "unpause", "die", "destroy",
     "kill", "oom", "health_status: healthy", "health_status: unhealthy"}

\* a stream item that is an event with actor, id, name attribute and a known
\* action
Recognised(item) ==
    /\ item.ok
    /\ item.value.actor.some
    /\ item.value.actor.value.id.some
    /\ item.value.actor.value.attributes.some
    /\ "name" \in DOMAIN item.value.actor.value.attributes.value
    /\ item.value.action.some
    /\ item.value.action.value \in KnownActions

\* the positions of the recognised events among the items taken, in order
RecognisedTaken ==
    SelectSeq([j \in 1..client.taken |-> j],
              LAMBDA j : Recognised(client.items[j]))

\* the events sent or about to be sent, in order
Forwarded ==
    [k \in DOMAIN client.attempts |-> client.attempts[k].event]
        \o (IF client.pending.some THEN <<client.pending.value>> ELSE <<>>)

====
